---- MODULE Spec2Model ----
(***************************************************************************)
(* Verification model of the Ghirbal safe-browsing shell: the URL          *)
(* classifier (processUrl and its rules), the permission gatekeeper of     *)
(* BrowserScreen, the load / reload sequencing, the Google navigation      *)
(* policy of the two navigation hooks, and the blocklist store.            *)
(*                                                                         *)
(* Strings are modelled as sequences of tokens.  A token is a run of       *)
(* characters that the corpus never needs to split ("google", "nsfw") or a *)
(* separator (".", "/", "?", "&", "=").  String.includes / startsWith /    *)
(* endsWith become the same tests on token sequences, so that a match      *)
(* without a dot boundary ("not" "example" "." "com" against               *)
(* "example" "." "com") stays expressible.                                 *)
(***************************************************************************)
EXTENDS Integers, Sequences, FiniteSets, TLC

VARIABLES
  \* ---- URL classifier -------------------------------------------------
  inputUrl,        \* the string handed to processUrl
  blockedIndex,    \* what getAllBlockedDomains() returns (set of strings)
  imagesBlocking,  \* APP_CONFIG.ENABLE_GOOGLE_IMAGES_BLOCKING
  urlResult,       \* the value processUrl returned, NoResult before the call
  \* ---- permission gatekeeper ------------------------------------------
  allowedSites,    \* allowed*SitesRef.current / allowed*Sites, per capability
  lockSnapshot,    \* allowed*Sites as captured by handleLockIconPress's closure
  sitePermissions, \* sitePermissionsRef.current: origin -> "true"|"false"|"unset"
  storage,         \* AsyncStorage: persisted hostname arrays, per capability
  storedSitePerms, \* AsyncStorage: persisted origin map
  pendingWrites,   \* started, not yet settled askToRemember / removePersistedPermission calls
  loadState,       \* loadPersistedPermissions: "pending" | "done"
  platform,        \* Platform.OS
  permTabHost,     \* hostname of the active tab's URL (raw, as new URL(..).hostname gives it)
  everAllowed,     \* history: normalized hostnames the user explicitly enabled, per capability
  lastToggle,      \* history: the last per-site toggle that completed
  prevToggle,      \* history: the per-site toggle before lastToggle
  storageFailed,   \* history: an AsyncStorage call of a toggle was rejected
  lastRequest,     \* the native permission request the last step decided, NoRequest otherwise
  nToggles,        \* number of toggles so far (bounded)
  reloadPrompt,    \* the "Reload page to apply changes?" alert: "none" | "detect" | "plain"
  \* ---- load / reload sequencing ----------------------------------------
  isLoadingRef,    \* isLoadingRef.current
  ytPendingStopThenReloadRef, \* ytPendingStopThenReloadRef.current
  lastReload,      \* history: the last webViewRef.current.reload() call
  \* ---- Google navigation policy ----------------------------------------
  tabUrl,          \* activeTab.url
  previousUrlRef,  \* previousUrlRef.current
  authorizedGoogleUrls, \* the authorizedGoogleUrls set
  lastNav,         \* history: the last navigation a hook decided
  \* ---- blocklist store -------------------------------------------------
  externalBlocklistCache, \* module variable of the blocklist manager
  localBlocklistCache,    \* filename -> domains
  allBlockedDomainsCache, \* the lazily built union, NullCache when null
  isInitialized,
  lastUpdateTimestamp,
  localFiles,      \* the files of the blocklist directory
  initTask,        \* position of a running initializeBlocklists()
  now,             \* Date.now(), in ticks
  lastConsult,     \* history: the last getAllBlockedDomainsSet() result
  enabledEndpoints,\* ids of the endpoints whose enabled flag is set
  fetchResults,    \* per endpoint: the fetchBlocklist() promise of the run
  runStart,        \* history: the caches when the current / last run began
  lastInitialize,  \* history: the last initializeBlocklists() call
  \* ---- script injection -----------------------------------------------
  lastInjection,   \* the scripts the last injection point put into the page
  \* ---- blocklist parsers -----------------------------------------------
  parseContent,    \* the content argument: a list of lines
  parseHint,       \* the formatHint argument, "none" when undefined
  parseResult,     \* what parseBlocklistContent returned
  \* ---- application configuration ---------------------------------------
  env,             \* process.env: variable name -> its value, "unset" if absent
  APP_CONFIG,      \* the APP_CONFIG object
  configLoaded,    \* whether the configuration module has been evaluated
  \* ---- adding a blocklist ----------------------------------------------
  lastAdd,         \* history: the last addBlocklistFromUrl() call and its result
  \* ---- YouTube Shorts ----------------------------------------------------
  youtubeReferrerRef, \* youtubeReferrerRef.current, <<>> when null
  ytScript,        \* the injected YouTube script: "idle", "due" (page loaded, runAll
                   \* not yet run) or "redirecting" (it assigned location.href)
  ytNavigatedFrom, \* history: the page the current page was navigated from
  ytPendingLoad,   \* the URL the content view is loading, <<>> when none
  lastShorts,      \* history: the last decision about a navigation
  \* ---- Reddit lists ------------------------------------------------------
  redditEnv,       \* process.env: the two Reddit list variables
  redditKeywords,  \* WILDCARD_REDDIT_KEYWORDS as the module evaluated it
  redditPatterns,  \* NSFW_REDDIT_PATTERNS as the module evaluated it
  lastClassify,    \* history: the last processUrl() call on a Reddit configuration
  \* ---- tabs --------------------------------------------------------------
  tabs,            \* the tab list: the ids of the tabs, in order
  activeTabId,     \* the id of the active tab, 0 when null
  tabStorage,      \* AsyncStorage: what the tabs and active-tab keys hold
  tabsLoaded,      \* isDataLoaded.current
  nextTabId,       \* the next id generateId() returns
  tabCooldown,     \* whether Date.now() - lastTabCreated.current < 1000
  \* ---- the content views of the tabs ---------------------------------------
  viewLoading,     \* per tab: whether its content view is loading a page
  ytRequester,     \* history: the tab whose page asked for the pending reload, 0 if none
  lastViewReload   \* history: the last reload() and the tab it was applied to

urlVars == <<inputUrl, blockedIndex, imagesBlocking, urlResult>>
permVars == <<allowedSites, lockSnapshot, sitePermissions, storage, storedSitePerms,
              pendingWrites, loadState, platform, permTabHost, everAllowed,
              lastToggle, prevToggle, storageFailed, lastRequest, nToggles, reloadPrompt>>
loadVars == <<isLoadingRef, ytPendingStopThenReloadRef, lastReload>>
navVars == <<tabUrl, previousUrlRef, authorizedGoogleUrls, lastNav>>
blockVars == <<externalBlocklistCache, localBlocklistCache, allBlockedDomainsCache,
               isInitialized, lastUpdateTimestamp, localFiles, initTask, now,
               lastConsult, enabledEndpoints, fetchResults, runStart, lastInitialize>>
pageVars == <<lastInjection>>
\* The groups of the parts of the program modelled after the blocklist store.
parseVars == <<parseContent, parseHint, parseResult>>
configVars == <<env, APP_CONFIG, configLoaded>>
addVars == <<lastAdd>>
shortsVars == <<youtubeReferrerRef, ytScript, ytNavigatedFrom, ytPendingLoad, lastShorts>>
redditVars == <<redditEnv, redditKeywords, redditPatterns, lastClassify>>
\* The groups added after shortsVars, and those added after addVars.
tabVars == <<tabs, activeTabId, tabStorage, tabsLoaded, nextTabId, tabCooldown>>
viewVars == <<viewLoading, ytRequester, lastViewReload>>
afterRedditVars == <<tabVars, viewVars>>
afterShortsVars == <<redditVars, afterRedditVars>>
lateVars == <<shortsVars, afterShortsVars>>
afterPageVars == <<parseVars, configVars, addVars, lateVars>>
restVars == <<pageVars, afterPageVars>>
vars == <<urlVars, permVars, loadVars, navVars, blockVars, restVars>>

(***************************************************************************)
(* Strings as token sequences                                              *)
(***************************************************************************)

\* String.prototype.toLowerCase on one token.
LowerTok(t) ==
  CASE t = "ADULT-EXAMPLE" -> "adult-example"
    [] t = "COM" -> "com"
    [] t = "WWW" -> "www"
    [] t = "NSFW" -> "nsfw"
    [] t = "Example" -> "example"
    [] t = "ServiceLogin" -> "servicelogin"
    [] t = "CheckCookie" -> "checkcookie"
    [] t = "AccountChooser" -> "accountchooser"
    [] t = "AddSession" -> "addsession"
    [] t = "Logout" -> "logout"
    [] t = "Login" -> "login"
    [] OTHER -> t

ToLower(s) == [i \in 1..Len(s) |-> LowerTok(s[i])]

StartsWith(s, p) == Len(p) <= Len(s) /\ SubSeq(s, 1, Len(p)) = p

EndsWith(s, p) == Len(p) <= Len(s) /\ SubSeq(s, Len(s) - Len(p) + 1, Len(s)) = p

Includes(s, p) ==
  \E i \in 0..(Len(s) - Len(p)) : SubSeq(s, i + 1, i + Len(p)) = p

\* Index of the first token of s that is in S, Len(s) + 1 when there is none.
IndexOfFirst(s, S) ==
  IF \E i \in 1..Len(s) : s[i] \in S
  THEN CHOOSE i \in 1..Len(s) : s[i] \in S /\ \A j \in 1..(i - 1) : s[j] \notin S
  ELSE Len(s) + 1

WebSchemes == {"https://", "http://"}
AppSchemes == {"fb://", "intent://"}

\* url.startsWith('http')
StartsWithHttp(url) == Len(url) > 0 /\ url[1] \in WebSchemes

\* The name of an app scheme, as the URL parser sees it after 'https://' was
\* put in front of it ("https://fb://x" has host "fb" and path "//x").
SchemeName(t) == IF t = "fb://" THEN "fb" ELSE "intent"

\* new URL(s): ok is FALSE where the constructor throws.  The host is
\* lowercased by the parser, an empty path becomes "/", the port (":" and
\* its digits) is no part of hostname.
BadUrl == [ok |-> FALSE, scheme |-> "", host |-> <<>>, port |-> <<>>,
           path |-> <<>>, search |-> <<>>]

ParseUrl(s) ==
  IF Len(s) < 2 \/ s[1] \notin WebSchemes
  THEN BadUrl
  ELSE
    LET rest0 == Tail(s)
        rest == IF rest0[1] \in AppSchemes
                THEN <<SchemeName(rest0[1]), "/", "/">> \o Tail(rest0)
                ELSE rest0
        h == IndexOfFirst(rest, {"/", "?", ":"})
        p == IndexOfFirst(rest, {"/", "?"})
        q == IndexOfFirst(rest, {"?"})
        host == SubSeq(rest, 1, h - 1)
        path == SubSeq(rest, p, q - 1)
        search == SubSeq(rest, q, Len(rest))
    IN IF host = <<>> \/ host[1] = "." \/ host[Len(host)] = "="
       THEN BadUrl
       ELSE [ok |-> TRUE,
             scheme |-> s[1],
             host |-> ToLower(host),
             port |-> SubSeq(rest, h, p - 1),
             path |-> IF path = <<>> THEN <<"/">> ELSE path,
             search |-> IF Len(search) <= 1 THEN <<>> ELSE search]

\* new URL(url.startsWith('http') ? url : `https://${url}`)
ParseLoose(url) == ParseUrl(IF StartsWithHttp(url) THEN url ELSE <<"https://">> \o url)

\* hostname.replace(/^www\./, '')
StripWww(h) == IF StartsWith(h, <<"www", ".">>) THEN SubSeq(h, 3, Len(h)) ELSE h

\* URLSearchParams of a search string: the sequence of [k, v] pairs.
RECURSIVE ParamsOf(_)
ParamsOf(search) ==
  IF Len(search) <= 1 THEN <<>>
  ELSE LET body == Tail(search)            \* drop the leading "?" or "&"
           e == IndexOfFirst(body, {"&"})
           one == SubSeq(body, 1, e - 1)
           eq == IndexOfFirst(one, {"="})
           pair == [k |-> SubSeq(one, 1, eq - 1), v |-> SubSeq(one, eq + 1, Len(one))]
       IN (IF one = <<>> THEN <<>> ELSE <<pair>>) \o ParamsOf(SubSeq(body, e, Len(body)))

\* searchParams.get(k): the first value, NoParam when absent.
NoParam == <<"(null)">>
ParamGet(params, k) ==
  IF \E i \in 1..Len(params) : params[i].k = k
  THEN params[CHOOSE i \in 1..Len(params) :
                params[i].k = k /\ \A j \in 1..(i - 1) : params[j].k # k].v
  ELSE NoParam

\* searchParams.set(k, v): the first occurrence is overwritten, the others
\* are removed; appended when absent.
RECURSIVE DropKey(_, _)
DropKey(params, k) ==
  IF params = <<>> THEN <<>>
  ELSE (IF Head(params).k = k THEN <<>> ELSE <<Head(params)>>) \o DropKey(Tail(params), k)

ParamSet(params, k, v) ==
  IF \E i \in 1..Len(params) : params[i].k = k
  THEN LET i == CHOOSE i \in 1..Len(params) :
                  params[i].k = k /\ \A j \in 1..(i - 1) : params[j].k # k
       IN SubSeq(params, 1, i - 1) \o <<[k |-> k, v |-> v]>>
            \o DropKey(SubSeq(params, i + 1, Len(params)), k)
  ELSE Append(params, [k |-> k, v |-> v])

\* URLSearchParams.toString with the leading "?".
RECURSIVE ParamsJoin(_)
ParamsJoin(params) ==
  IF params = <<>> THEN <<>>
  ELSE Head(params).k \o <<"=">> \o Head(params).v
         \o (IF Len(params) > 1 THEN <<"&">> ELSE <<>>) \o ParamsJoin(Tail(params))

\* URL.prototype.toString() after its searchParams were replaced.
UrlToString(u, params) ==
  <<u.scheme>> \o u.host \o u.port \o u.path
     \o (IF params = <<>> THEN <<>> ELSE <<"?">> \o ParamsJoin(params))


(***************************************************************************)
(* URL classifier: the rules of processUrl                                 *)
(***************************************************************************)

AuthSubdomains ==
  { <<"accounts", ".", "google">>, <<"myaccount", ".", "google">>,
    <<"oauth2", ".", "googleapis">>, <<"securetoken", ".", "googleapis">>,
    <<"identitytoolkit", ".", "googleapis">>, <<"gsi", ".", "gstatic">>,
    <<"iframerpc", ".", "gstatic">>, <<"content", ".", "googleapis">>,
    <<"sts", ".", "googleapis">>, <<"accounts", ".", "youtube">> }

\* The keywords are compared with the lowercased path as they are written:
\* the capitalised ones can never match.
AuthPathKeywords ==
  { <<"/", "signin">>, <<"/", "oauth">>, <<"/", "auth">>, <<"/", "login">>,
    <<"/", "accounts">>, <<"/", "gsi">>, <<"/", "ServiceLogin">>,
    <<"/", "CheckCookie">>, <<"/", "AccountChooser">>, <<"/", "AddSession">>,
    <<"/", "Logout">>, <<"/", "challenge">>, <<"/", "speedbump">>,
    <<"/", "accountlookup">>, <<"/", "interstitial">>, <<"/", "embedded">>,
    <<"/", "authorization">> }

OauthParams ==
  { <<"response_type", "=">>, <<"client_id", "=">>, <<"redirect_uri", "=">>,
    <<"state", "=">>, <<"scope", "=">>, <<"continue", "=">>, <<"authuser", "=">>,
    <<"oauth", "=">>, <<"token", "=">>, <<"access_token", "=">>, <<"code", "=">>,
    <<"grant_type", "=">>, <<"refresh_token", "=">> }

isGoogleAuthUrl(url) ==
  LET u == ParseLoose(url)
  IN /\ u.ok
     /\ \/ \E sub \in AuthSubdomains : Includes(u.host, sub)
        \/ \E kw \in AuthPathKeywords : Includes(ToLower(u.path), kw)
        \/ \E prm \in OauthParams : Includes(ToLower(u.search), prm)

\* extractDomain(url): the catch branch strips "www." from the raw string.
extractDomain(url) ==
  LET u == ParseLoose(url)
  IN IF u.ok THEN StripWww(u.host) ELSE StripWww(url)

\* A suffix test that ignores the label boundary.
DomainMatchesNoBoundary(domain, b) == domain = b \/ EndsWith(domain, b)

\* domain === blocked || domain.endsWith('.' + blocked)
DomainMatches(domain, b) == domain = b \/ EndsWith(domain, <<".">> \o b)

isBlockedDomain(url, index) ==
  IF isGoogleAuthUrl(url) THEN FALSE
  ELSE LET domain == ToLower(extractDomain(url))
       IN \E blocked \in index : DomainMatches(domain, ToLower(blocked))

BLOCKED_SEARCH_ENGINES ==
  { <<"yandex", ".", "com">>, <<"yandex", ".", "ru">>, <<"duckduckgo", ".", "com">> }

isBlockedSearchEngine(url) ==
  LET domain == ToLower(extractDomain(url))
  IN \E blocked \in BLOCKED_SEARCH_ENGINES :
        domain = blocked \/ EndsWith(domain, <<".">> \o blocked)

isBlockedInstagramUrl(url) ==
  LET u == ParseLoose(url)
  IN /\ u.ok
     /\ Includes(u.host, <<"instagram", ".", "com">>)
     /\ ~(StartsWith(u.path, <<"/", "reel", "/">>) /\ Len(u.path) > Len(<<"/", "reel", "/">>))
     /\ ~(StartsWith(u.path, <<"/", "p", "/">>) /\ Len(u.path) > Len(<<"/", "p", "/">>))

\* Every branch of isBlockedFacebookUrl returns false.
isBlockedFacebookUrl(url) == FALSE

ApkExtensions ==
  { <<".", "apk">>, <<".", "xapk">>, <<".", "apkm">>, <<".", "apkx">>, <<".", "apks">> }

ApkPatterns ==
  { <<"/", "download", ".", "apk">>, <<"/", "app", ".", "apk">>, <<".", "apk", "?">>,
    <<".", "apk", "&">>, <<"/", "apk", "/">>, <<"download", "=", "apk">>,
    <<"type", "=", "apk">>, <<"file", "=", "apk">>, <<"format", "=", "apk">>,
    <<"/", "getapk">>, <<"/", "downloadapk">>, <<"/", "apk-download">>,
    <<"apkpure", ".", "com">>, <<"apkmirror", ".", "com">>, <<"apkcombo", ".", "com">>,
    <<"apk-dl", ".", "com">>, <<"aptoide", ".", "com">> }

ApkMimePatterns ==
  { <<"application", "/", "vnd", ".", "android", ".", "package-archive">>,
    <<"application%2fvnd", ".", "android", ".", "package-archive">> }

isApkDownload(url) ==
  LET lowerUrl == ToLower(url)
  IN \/ \E e \in ApkExtensions : EndsWith(lowerUrl, e)
     \/ \E pat \in ApkPatterns : Includes(lowerUrl, pat)
     \/ \E pat \in ApkMimePatterns : Includes(lowerUrl, pat)


\* The section test with the Images indicators tested whatever the flag says.
isBlockedGoogleSectionFlagIgnored(url, images) ==
  LET u == ParseLoose(url)
      path == ToLower(u.path)
      fullUrl == ToLower(url)
  IN /\ u.ok
     /\ ~isGoogleAuthUrl(url)
     /\ Includes(StripWww(u.host), <<"google", ".">>)
     /\ \E ind \in { <<"/", "imghp">>, <<"/", "images">>, <<"/", "videohp">>,
                      <<"/", "videos">>, <<"/", "shorts">> } \cup
                    { <<"tbm", "=", "isch">>, <<"udm", "=", "2">>, <<"tbm", "=", "vid">>,
                      <<"udm", "=", "7">>, <<"tbm", "=", "shs">>, <<"udm", "=", "39">> } :
          Includes(fullUrl, ind)

\* isBlockedGoogleSection(url); images is isGoogleImagesBlockingEnabled().
isBlockedGoogleSection(url, images) ==
  LET u == ParseLoose(url)
      domain == StripWww(u.host)
      path == ToLower(u.path)
      params == ParamsOf(u.search)
      fullUrl == ToLower(url)
  IN /\ u.ok
     /\ ~isGoogleAuthUrl(url)
     /\ Includes(domain, <<"google", ".">>)
     /\ \/ /\ images
           /\ \/ Includes(path, <<"/", "imghp">>)
              \/ Includes(path, <<"/", "images">>)
              \/ ParamGet(params, <<"tbm">>) = <<"isch">>
              \/ ParamGet(params, <<"udm">>) = <<"2">>
              \/ Includes(fullUrl, <<"tbm", "=", "isch">>)
              \/ Includes(fullUrl, <<"udm", "=", "2">>)
        \/ Includes(path, <<"/", "videohp">>)
        \/ Includes(path, <<"/", "videos">>)
        \/ ParamGet(params, <<"tbm">>) = <<"vid">>
        \/ ParamGet(params, <<"udm">>) = <<"7">>
        \/ Includes(fullUrl, <<"tbm", "=", "vid">>)
        \/ Includes(fullUrl, <<"udm", "=", "7">>)
        \/ Includes(path, <<"/", "shorts">>)
        \/ ParamGet(params, <<"udm">>) = <<"39">>
        \/ Includes(fullUrl, <<"tbm", "=", "shs">>)
        \/ Includes(fullUrl, <<"udm", "=", "39">>)

\* process.env.WILDCARD_REDDIT_BLOCKED_LIST and SUBREDDIT_PATTERNS_BLOCKED_LIST,
\* set as the README's example sets them.
WILDCARD_REDDIT_KEYWORDS == { <<"nsfw">> }
NSFW_REDDIT_PATTERNS == { <<"/", "r", "/", "gonewild">> }

BLOCKED_REDDIT_PATHS == { <<"/", "settings">>, <<"/", "search">> }

\* Tokens that hold a character outside [a-z0-9_].
NonWordToks ==
  { ".", "/", "?", "&", "=", ":", "-", "https://", "http://", "fb://", "intent://",
    "adult-example", "apk-download", "apk-dl", "package-archive" }

\* The longest run of word tokens of s that starts at index i.
RECURSIVE WordRun(_, _)
WordRun(s, i) ==
  IF i > Len(s) \/ s[i] \in NonWordToks THEN <<>>
  ELSE <<s[i]>> \o WordRun(s, i + 1)

\* lowercaseUrl.match(/\/r\/([a-z0-9_]+)/i): the capture group, <<>> when
\* there is no match.
SubredditMatch(s) ==
  LET hit(i) == /\ i + 3 <= Len(s)
                /\ SubSeq(s, i, i + 2) = <<"/", "r", "/">>
                /\ s[i + 3] \notin NonWordToks
  IN IF \E i \in 1..Len(s) : hit(i)
     THEN WordRun(s, 3 + CHOOSE i \in 1..Len(s) : hit(i) /\ \A j \in 1..(i - 1) : ~hit(j))
     ELSE <<>>

\* isNsfwRedditUrl(url) of a module whose two lists evaluated to keywords and
\* patterns.
isNsfwRedditUrlWith(url, keywords, patterns) ==
  LET lowercaseUrl == ToLower(url)
      subredditName == SubredditMatch(lowercaseUrl)
  IN /\ Includes(lowercaseUrl, <<"reddit", ".", "com">>)
     /\ \/ \E pattern \in patterns : Includes(lowercaseUrl, ToLower(pattern))
        \/ /\ subredditName # <<>>
           /\ \E keyword \in keywords : Includes(subredditName, keyword)

isNsfwRedditUrl(url) ==
  isNsfwRedditUrlWith(url, WILDCARD_REDDIT_KEYWORDS, NSFW_REDDIT_PATTERNS)

isBlockedRedditPath(url) ==
  LET u == ParseLoose(url)
      path == ToLower(u.path)
  IN /\ u.ok
     /\ Includes(u.host, <<"reddit", ".", "com">>)
     /\ \E blockedPath \in BLOCKED_REDDIT_PATHS :
           path = blockedPath \/ StartsWith(path, blockedPath \o <<"/">>)

\* enforceGoogleSafeSearch(url): new URL(url) without a scheme prefix.
enforceGoogleSafeSearch(url) ==
  LET u == ParseUrl(url)
  IN IF ~u.ok THEN url
     ELSE IF isGoogleAuthUrl(url) THEN url
     ELSE IF Includes(u.host, <<"google", ".">>)
          THEN UrlToString(u, ParamSet(ParamsOf(u.search), <<"safe">>, <<"active">>))
          ELSE url

enforceRedditSafe(url) ==
  LET u == ParseUrl(url)
  IN IF ~u.ok THEN url
     ELSE IF Includes(u.host, <<"reddit", ".", "com">>)
          THEN IF Includes(u.path, <<"/", "search">>) THEN url
               ELSE UrlToString(u, ParamSet(ParamsOf(u.search), <<"over18">>, <<"0">>))
          ELSE url

\* /^[a-z][a-z0-9+.-]*:/i.test(url): a scheme token, or letters, digits, "."
\* and "-" up to a ":" (which also matches host:port).
hasScheme(url) ==
  /\ Len(url) > 0
  /\ \/ url[1] \in WebSchemes \cup AppSchemes
     \/ LET c == IndexOfFirst(url, {":"})
        IN /\ c <= Len(url)
           /\ c > 1
           /\ \A j \in 1..(c - 1) : url[j] \notin {"/", "?", "&", "="}

ReasonApk == "APK downloads are not allowed"
ReasonDomain == "This website is blocked for safety"
ReasonSearchEngine == "This search engine is not allowed. Please use Google."
ReasonGoogleSection == "Google Images, Videos, and Shorts are blocked"
ReasonRedditNsfw == "This Reddit content is blocked for safety"
ReasonRedditPath == "This Reddit page is blocked"
ReasonInstagram == "This Instagram content is blocked. Only reels and posts are allowed."
ReasonFacebook == "This Facebook content is blocked for safety"
NoReason == "(none)"

Blocked(url, reason) == [url |-> url, blocked |-> TRUE, reason |-> reason]
Passed(url) == [url |-> url, blocked |-> FALSE, reason |-> NoReason]

\* processUrl with the blocked-domain rule tried before the APK rule.
processUrlDomainFirst(input, index, images) ==
  LET isWebScheme == StartsWithHttp(input)
      url == IF ~hasScheme(input) THEN <<"https://">> \o input ELSE input
  IN IF hasScheme(input) /\ ~isWebScheme THEN Passed(url)
     ELSE IF isBlockedDomain(url, index) THEN Blocked(url, ReasonDomain)
     ELSE IF isApkDownload(url) THEN Blocked(url, ReasonApk)
     ELSE IF isBlockedSearchEngine(url) THEN Blocked(url, ReasonSearchEngine)
     ELSE IF isBlockedGoogleSection(url, images) THEN Blocked(url, ReasonGoogleSection)
     ELSE IF isNsfwRedditUrl(url) THEN Blocked(url, ReasonRedditNsfw)
     ELSE IF isBlockedRedditPath(url) THEN Blocked(url, ReasonRedditPath)
     ELSE IF isBlockedInstagramUrl(url) THEN Blocked(url, ReasonInstagram)
     ELSE IF isBlockedFacebookUrl(url) THEN Blocked(url, ReasonFacebook)
     ELSE Passed(enforceRedditSafe(enforceGoogleSafeSearch(url)))

\* processUrl(inputUrl) against the aggregate index and the images flag, in
\* an app whose Reddit lists evaluated to keywords and patterns.
processUrlWith(input, index, images, keywords, patterns) ==
  LET isWebScheme == StartsWithHttp(input)
      url == IF ~hasScheme(input) THEN <<"https://">> \o input ELSE input
  IN IF hasScheme(input) /\ ~isWebScheme THEN Passed(url)
     ELSE IF isApkDownload(url) THEN Blocked(url, ReasonApk)
     ELSE IF isBlockedDomain(url, index) THEN Blocked(url, ReasonDomain)
     ELSE IF isBlockedSearchEngine(url) THEN Blocked(url, ReasonSearchEngine)
     ELSE IF isBlockedGoogleSection(url, images) THEN Blocked(url, ReasonGoogleSection)
     ELSE IF isNsfwRedditUrlWith(url, keywords, patterns) THEN Blocked(url, ReasonRedditNsfw)
     ELSE IF isBlockedRedditPath(url) THEN Blocked(url, ReasonRedditPath)
     ELSE IF isBlockedInstagramUrl(url) THEN Blocked(url, ReasonInstagram)
     ELSE IF isBlockedFacebookUrl(url) THEN Blocked(url, ReasonFacebook)
     ELSE Passed(enforceRedditSafe(enforceGoogleSafeSearch(url)))

\* processUrl(inputUrl) against the aggregate index and the images flag.
processUrl(input, index, images) ==
  processUrlWith(input, index, images, WILDCARD_REDDIT_KEYWORDS, NSFW_REDDIT_PATTERNS)


\* Tokens that /[a-z]{2,3}/ and /[a-z]{2}/ match.
Tld23 == {"com", "co", "de", "uk"}
Tld2 == {"uk", "de"}

AllowedPrefixes ==
  {"maps", "drive", "docs", "sheets", "slides", "calendar", "mail", "meet", "translate",
   "play", "accounts", "myaccount", "support", "cloud", "apis", "fonts", "firebase", "storage"}

isGoogleSearchDomain(url) ==
  LET u == ParseLoose(url)
      hostname == u.host
      domain == StripWww(hostname)
  IN /\ u.ok
     /\ ~isGoogleAuthUrl(url)
     /\ \/ domain = <<"google", ".", "com">>
        \/ /\ Len(domain) = 3
           /\ SubSeq(domain, 1, 2) = <<"google", ".">>
           /\ domain[3] \in Tld23
        \/ /\ Len(domain) = 5
           /\ SubSeq(domain, 1, 2) = <<"google", ".">>
           /\ domain[3] \in Tld23 /\ domain[4] = "." /\ domain[5] \in Tld2
     /\ ~(Len(hostname) >= 2 /\ hostname[1] \in AllowedPrefixes /\ hostname[2] = ".")

\* isOAuthCallbackUrl(url): a state parameter and a code or token parameter
\* in the lowercased query string.
OAuthCallbackParams ==
  { <<"code", "=">>, <<"access_token", "=">>, <<"id_token", "=">>,
    <<"oauth_token", "=">>, <<"oauth_verifier", "=">> }

isOAuthCallbackUrl(url) ==
  LET u == ParseLoose(url)
      search == ToLower(u.search)
  IN /\ u.ok
     /\ Includes(search, <<"state", "=">>)
     /\ \E prm \in OAuthCallbackParams : Includes(search, prm)

\* isGoogleSearchUrl(url): a host that contains "google." and the path "/"
\* or one that contains "/search".
isGoogleSearchUrl(url) ==
  LET u == ParseLoose(url)
  IN /\ u.ok
     /\ Includes(u.host, <<"google", ".">>)
     /\ (Includes(u.path, <<"/", "search">>) \/ u.path = <<"/">>)

(***************************************************************************)
(* Permission gatekeeper (BrowserScreen)                                   *)
(***************************************************************************)

\* The keys of PERMISSION_STORAGE_KEYS.
Caps == {"mic", "gps", "storage", "notifications", "images"}

HostA == <<"a", ".", "com">>
HostWwwA == <<"www", ".", "a", ".", "com">>
HostB == <<"b", ".", "com">>
HostUnknown == <<"unknown">>
RawHosts == {HostA, HostWwwA, HostB}

\* normalizeHostname(host)
normalizeHostname(host) ==
  IF host = <<>> \/ host = HostUnknown THEN host
  ELSE IF StartsWith(host, <<"www", ".">>) THEN SubSeq(host, 3, Len(host))
  ELSE host

\* extractOrigin(url) for the https page of a host.
extractOrigin(host) == <<"https://">> \o host
Origins == {extractOrigin(h) : h \in RawHosts}

\* The resource strings a native request may carry; "midi" stands for a
\* resource the handler does not know.
Resources ==
  {"microphone", "camera", "notifications", "geolocation", "protected_media_id", "midi"}

NoToggle == [c |-> "none", host |-> <<>>, enabled |-> FALSE]
NoRequest == [host |-> <<>>, resources |-> {}, active |-> FALSE, decision |-> "none",
              granted |-> {}]

\* An AsyncStorage value: {} is a key that was never written (getItem gives
\* null), {S} is the stored array S.
StoredSites(c) == IF storage[c] = {} THEN {} ELSE CHOOSE S \in storage[c] : TRUE

\* A default-on lookup: a capability nobody configured is open to every host.
isCapabilityAllowedDefaultOn(host, c) ==
  allowedSites[c] = {} \/ normalizeHostname(host) \in allowedSites[c]

\* allowed*SitesRef.current.has(normalizeHostname(hostname)), the lookup of
\* onPermissionRequest, handleLoadStart, handleLoadEnd and syncGatekeeperPermissions.
isCapabilityAllowed(host, c) == normalizeHostname(host) \in allowedSites[c]

\* An open-world policy: a resource the handler does not know is let through.
ResourceGrantedOpenWorld(resource, host) ==
  IF resource \in {"microphone", "camera"} THEN isCapabilityAllowed(host, "mic")
  ELSE IF resource = "notifications" THEN isCapabilityAllowed(host, "notifications")
  ELSE IF resource = "geolocation" THEN isCapabilityAllowed(host, "gps")
  ELSE TRUE

\* The body of resources.forEach in onPermissionRequest: whether the resource
\* is pushed to permissionsToGrant (otherwise deniedAny is set).
ResourceGranted(resource, host) ==
  IF resource \in {"microphone", "camera"} THEN isCapabilityAllowed(host, "mic")
  ELSE IF resource = "notifications" THEN isCapabilityAllowed(host, "notifications")
  ELSE IF resource = "geolocation" THEN isCapabilityAllowed(host, "gps")
  ELSE IF resource = "protected_media_id" THEN TRUE
  ELSE FALSE

\* A gatekeeper that grants the allowed part of a batch.
DecidePartialGrant(host, resources) ==
  LET permissionsToGrant == {r \in resources : ResourceGranted(r, host)}
  IN IF permissionsToGrant = {}
     THEN [decision |-> "deny", granted |-> {}]
     ELSE [decision |-> "grant", granted |-> permissionsToGrant]

\* The decision of onPermissionRequest for an active tab: request.deny() or
\* request.grant(permissionsToGrant).
decideNativeRequest(host, resources) ==
  LET permissionsToGrant == {r \in resources : ResourceGranted(r, host)}
      deniedAny == \E r \in resources : ~ResourceGranted(r, host)
  IN IF deniedAny
     THEN [decision |-> "deny", granted |-> {}]
     ELSE [decision |-> "grant", granted |-> permissionsToGrant]

\* onPermissionRequest of a tab's WebView; active is tab.id === activeTabId.
\* A request of a tab that is not the active one gets no answer.
OnPermissionRequest(host, resources, active) ==
  /\ lastRequest' =
       IF active
       THEN LET d == decideNativeRequest(host, resources)
            IN [host |-> host, resources |-> resources, active |-> TRUE,
                decision |-> d.decision, granted |-> d.granted]
       ELSE [host |-> host, resources |-> resources, active |-> FALSE,
             decision |-> "none", granted |-> {}]
  /\ UNCHANGED <<allowedSites, lockSnapshot, sitePermissions, storage, storedSitePerms,
                 pendingWrites, loadState, platform, permTabHost, everAllowed,
                 lastToggle, prevToggle, storageFailed, nToggles, reloadPrompt>>

\* loadPersistedPermissions and loadSitePermissions (the mount effects): a
\* key that holds data replaces the in-memory value, an absent key leaves it.
LoadPersistedPermissions ==
  /\ loadState = "pending"
  /\ loadState' = "done"
  /\ allowedSites' = [c \in Caps |->
                        IF storage[c] = {} THEN allowedSites[c] ELSE StoredSites(c)]
  /\ sitePermissions' = IF storedSitePerms = {} THEN sitePermissions
                        ELSE CHOOSE m \in storedSitePerms : TRUE
  /\ lastRequest' = NoRequest
  /\ UNCHANGED <<lockSnapshot, storage, storedSitePerms, pendingWrites, platform,
                 permTabHost, everAllowed, lastToggle, prevToggle, storageFailed, nToggles, reloadPrompt>>

\* The active tab's URL changes (updateTab): activeTab is a new object, so
\* handleLockIconPress is created again and captures the sets of this render.
TabUpdated(host) ==
  /\ host \in RawHosts
  /\ permTabHost' = host
  /\ lockSnapshot' = IF platform = "ios" THEN allowedSites ELSE lockSnapshot
  /\ lastRequest' = NoRequest
  /\ UNCHANGED <<allowedSites, sitePermissions, storage, storedSitePerms,
                 pendingWrites, loadState, platform, everAllowed, lastToggle, prevToggle, storageFailed,
                 nToggles, reloadPrompt>>


MaxToggles == 2

NoPerms == [o \in Origins |-> "unset"]

\* A storage call that has been started and not yet settled.
WriteOp(kind, c, host, phase, sites, perms) ==
  [kind |-> kind, c |-> c, host |-> host, phase |-> phase, sites |-> sites, perms |-> perms]

\* askToRemember(type, hostname), up to its first await.
askToRemember(c, host) == WriteOp("add", c, host, "getItem", {}, NoPerms)

\* removePersistedPermission(type, hostname), up to its first await.
removePersistedPermission(c, host) == WriteOp("remove", c, host, "getItem", {}, NoPerms)

\* saveSitePermissions(permissions), up to its await.
saveSitePermissions(perms) == WriteOp("site", "mic", <<>>, "setItem", {}, perms)

\* The onPress body shared by the hostname-set toggles: sites is the set the
\* handler copies (the closure's state on iOS, the render's state on Android).
ToggleHostnameSet(c, host, sites) ==
  LET enabling == host \notin sites
      newSites == IF enabling THEN sites \cup {host} ELSE sites \ {host}
  IN /\ allowedSites' = [allowedSites EXCEPT ![c] = newSites]
     /\ pendingWrites' = pendingWrites \cup
          {IF enabling THEN askToRemember(c, host) ELSE removePersistedPermission(c, host)}
     /\ everAllowed' = IF enabling
                       THEN [everAllowed EXCEPT ![c] = @ \cup {normalizeHostname(host)}]
                       ELSE everAllowed
     /\ lastToggle' = [c |-> c, host |-> host, enabled |-> enabling]
     /\ prevToggle' = lastToggle
     /\ UNCHANGED storageFailed

\* handleLockIconPress on iOS: the action sheet's toggle for one capability.
\* hostname is the raw hostname of activeTab.url; allowed*Sites are the values
\* captured when the callback was created.
ToggleIOS(c) ==
  /\ platform = "ios"
  /\ loadState = "done"
  /\ nToggles < MaxToggles
  /\ nToggles' = nToggles + 1
  /\ ToggleHostnameSet(c, permTabHost, lockSnapshot[c])
  /\ reloadPrompt' = "detect"
  /\ lastRequest' = NoRequest
  /\ UNCHANGED <<lockSnapshot, sitePermissions, storage, storedSitePerms, loadState,
                 platform, permTabHost>>

\* The Android menu's GPS, storage, notifications and images rows:
\* lockMenuHostname is the raw hostname, allowed*Sites the current state.
ToggleAndroid(c) ==
  /\ platform = "android"
  /\ c # "mic"
  /\ loadState = "done"
  /\ nToggles < MaxToggles
  /\ nToggles' = nToggles + 1
  /\ ToggleHostnameSet(c, permTabHost, allowedSites[c])
  /\ reloadPrompt' = "detect"
  /\ lastRequest' = NoRequest
  /\ UNCHANGED <<lockSnapshot, sitePermissions, storage, storedSitePerms, loadState,
                 platform, permTabHost>>

\* The Android menu's Camera/Mic row: the origin map decides the direction,
\* saveSitePermissions stores the map, and the hostname set is changed in
\* memory only.
ToggleAndroidMic ==
  LET origin == extractOrigin(permTabHost)
      isEnabled == sitePermissions[origin] = "true"
      newPerms == [sitePermissions EXCEPT ![origin] = IF isEnabled THEN "false" ELSE "true"]
      newMicSites == IF ~isEnabled THEN allowedSites["mic"] \cup {permTabHost}
                     ELSE allowedSites["mic"] \ {permTabHost}
  IN /\ platform = "android"
     /\ loadState = "done"
     /\ nToggles < MaxToggles
     /\ nToggles' = nToggles + 1
     /\ pendingWrites' = pendingWrites \cup {saveSitePermissions(newPerms)}
     /\ allowedSites' = [allowedSites EXCEPT !["mic"] = newMicSites]
     /\ everAllowed' = IF ~isEnabled
                       THEN [everAllowed EXCEPT !["mic"] = @ \cup {normalizeHostname(permTabHost)}]
                       ELSE everAllowed
     /\ lastToggle' = [c |-> "mic", host |-> permTabHost, enabled |-> ~isEnabled]
     /\ prevToggle' = lastToggle
     /\ UNCHANGED storageFailed
     /\ reloadPrompt' = "plain"
     /\ lastRequest' = NoRequest
     /\ UNCHANGED <<lockSnapshot, sitePermissions, storage, storedSitePerms, loadState,
                    platform, permTabHost>>

\* onFileDownload, the user pressing Allow: the raw hostname joins the
\* storage set in memory.
FileDownloadAllow ==
  /\ loadState = "done"
  /\ nToggles < MaxToggles
  /\ nToggles' = nToggles + 1
  /\ permTabHost \notin allowedSites["storage"]
  /\ allowedSites' = [allowedSites EXCEPT !["storage"] = @ \cup {permTabHost}]
  /\ everAllowed' = [everAllowed EXCEPT !["storage"] = @ \cup {normalizeHostname(permTabHost)}]
  /\ lastRequest' = NoRequest
  /\ UNCHANGED <<lockSnapshot, sitePermissions, storage, storedSitePerms,
                 pendingWrites, loadState, platform, permTabHost, lastToggle, prevToggle, storageFailed,
                 reloadPrompt>>

\* AsyncStorage.getItem settles inside askToRemember / removePersistedPermission.
StorageGetItem(op) ==
  LET existing == StoredSites(op.c)
      normalized == normalizeHostname(op.host)
      next == IF op.kind = "add"
              THEN IF normalized \in existing THEN {}
                   ELSE {[op EXCEPT !.phase = "setItem", !.sites = existing \cup {normalized}]}
              ELSE IF storage[op.c] = {} THEN {}
                   ELSE {[op EXCEPT !.phase = "setItem", !.sites = existing \ {op.host}]}
  IN /\ op.kind \in {"add", "remove"}
     /\ op.phase = "getItem"
     /\ pendingWrites' = (pendingWrites \ {op}) \cup next
     /\ lastRequest' = NoRequest
     /\ UNCHANGED <<allowedSites, lockSnapshot, sitePermissions, storage,
                    storedSitePerms, loadState, platform, permTabHost, everAllowed,
                    lastToggle, prevToggle, storageFailed, nToggles, reloadPrompt>>

\* AsyncStorage.setItem settles; saveSitePermissions then updates the map in
\* memory.
StorageSetItem(op) ==
  /\ op.phase = "setItem"
  /\ pendingWrites' = pendingWrites \ {op}
  /\ IF op.kind = "site"
     THEN /\ storedSitePerms' = {op.perms}
          /\ sitePermissions' = op.perms
          /\ UNCHANGED storage
     ELSE /\ storage' = [storage EXCEPT ![op.c] = {op.sites}]
          /\ UNCHANGED <<storedSitePerms, sitePermissions>>
  /\ lastRequest' = NoRequest
  /\ UNCHANGED <<allowedSites, lockSnapshot, loadState, platform, permTabHost,
                 everAllowed, lastToggle, prevToggle, storageFailed, nToggles, reloadPrompt>>

\* An AsyncStorage call rejects: the catch block logs and nothing is written.
StorageFails(op) ==
  /\ pendingWrites' = pendingWrites \ {op}
  /\ storageFailed' = TRUE
  /\ lastRequest' = NoRequest
  /\ UNCHANGED <<allowedSites, lockSnapshot, sitePermissions, storage,
                 storedSitePerms, loadState, platform, permTabHost, everAllowed,
                 lastToggle, prevToggle, nToggles, reloadPrompt>>


(***************************************************************************)
(* Values of the parts of the program a specification leaves at rest       *)
(***************************************************************************)

NoResult == [url |-> <<>>, blocked |-> FALSE, reason |-> "(pending)"]
NoReload == [cause |-> "none", whileLoading |-> FALSE]
NoNav == [hook |-> "none", active |-> FALSE, url |-> <<>>, referrer |-> <<>>,
          authorized |-> FALSE, allowed |-> FALSE, redirect |-> <<>>, outcome |-> "none",
          view |-> "none"]
NullCache == {"(null)"}
NoConsult == [consulted |-> FALSE, result |-> {}, union |-> {}]
NoRun == [kind |-> "none", completed |-> FALSE, external |-> <<>>, local |-> <<>>,
          files |-> <<>>, enabled |-> {}, union |-> {}, index |-> {}]
NoInitialize == [called |-> FALSE, initialized |-> FALSE, age |-> 0, started |-> FALSE,
                 before |-> <<>>]

\* The classifier before any call.
UrlAtRest ==
  /\ inputUrl = <<>>
  /\ blockedIndex = {}
  /\ imagesBlocking = FALSE
  /\ urlResult = NoResult

\* The useState / useRef initial values of the permission state, with empty
\* AsyncStorage.
PermAtRest ==
  /\ allowedSites = [c \in Caps |-> {}]
  /\ lockSnapshot = [c \in Caps |-> {}]
  /\ sitePermissions = NoPerms
  /\ storage = [c \in Caps |-> {}]
  /\ storedSitePerms = {}
  /\ pendingWrites = {}
  /\ loadState = "pending"
  /\ platform = "android"
  /\ permTabHost = HostA
  /\ everAllowed = [c \in Caps |-> {}]
  /\ lastToggle = NoToggle
  /\ prevToggle = NoToggle
  /\ storageFailed = FALSE
  /\ lastRequest = NoRequest
  /\ nToggles = 0
  /\ reloadPrompt = "none"

\* isLoadingRef and ytPendingStopThenReloadRef as useRef(false) creates them.
LoadAtRest ==
  /\ isLoadingRef = FALSE
  /\ ytPendingStopThenReloadRef = FALSE
  /\ lastReload = NoReload

SAFE_SEARCH_HOMEPAGE == <<"https://", "www", ".", "safesearchengine", ".", "com", "/">>

NavAtRest ==
  /\ tabUrl = <<"https://", "safesearchengine", ".", "com", "/">>
  /\ previousUrlRef = <<>>
  /\ authorizedGoogleUrls = {}
  /\ lastNav = NoNav

NoInjection == [point |-> "none", url |-> <<>>, scripts |-> {}]

\* No page has been given a script yet.
PageAtRest == lastInjection = NoInjection

NoParse == [done |-> FALSE, domains |-> <<>>]

ParseAtRest ==
  /\ parseContent = <<>>
  /\ parseHint = "none"
  /\ parseResult = NoParse

FlagNames ==
  {"ENABLE_MEDIA_BLOCKING", "ENABLE_GOOGLE_ACCESS_CONTROL",
   "ENABLE_YOUTUBE_ALWAYS_RESTRICTED", "ENABLE_GOOGLE_IMAGES_BLOCKING"}

\* The .env file the README gives.
ReadmeEnv ==
  [n \in FlagNames |-> IF n = "ENABLE_YOUTUBE_ALWAYS_RESTRICTED" THEN "false" ELSE "true"]

\* The initialiser of each APP_CONFIG field: a comparison of the environment
\* variable with a literal.
FlagLiteral(n) ==
  CASE n = "ENABLE_MEDIA_BLOCKING" -> "true"
    [] n = "ENABLE_GOOGLE_ACCESS_CONTROL" -> "false"
    [] n = "ENABLE_YOUTUBE_ALWAYS_RESTRICTED" -> "true"
    [] n = "ENABLE_GOOGLE_IMAGES_BLOCKING" -> "false"

\* export const APP_CONFIG = { ... }
AppConfig(e) == [n \in FlagNames |-> e[n] = FlagLiteral(n)]

\* APP_CONFIG before the module is evaluated.
AppConfigNotLoaded == [n \in FlagNames |-> FALSE]

isMediaBlockingEnabled == APP_CONFIG["ENABLE_MEDIA_BLOCKING"]
isGoogleAccessControlEnabled == APP_CONFIG["ENABLE_GOOGLE_ACCESS_CONTROL"]
isYouTubeAlwaysRestrictedEnabled == APP_CONFIG["ENABLE_YOUTUBE_ALWAYS_RESTRICTED"]
isGoogleImagesBlockingEnabled == APP_CONFIG["ENABLE_GOOGLE_IMAGES_BLOCKING"]

\* The app built with the README's .env, its configuration module imported.
ConfigAtRest ==
  /\ env = ReadmeEnv
  /\ APP_CONFIG = AppConfig(ReadmeEnv)
  /\ configLoaded = TRUE

NoAdd == [called |-> FALSE]

AddAtRest == lastAdd = NoAdd

NoShorts == [stage |-> "none", from |-> <<>>, url |-> <<>>, outcome |-> "none"]

ShortsAtRest ==
  /\ youtubeReferrerRef = <<>>
  /\ ytScript = "idle"
  /\ ytNavigatedFrom = <<>>
  /\ ytPendingLoad = <<>>
  /\ lastShorts = NoShorts

\* The values an environment variable holding a JSON list can have.
EnvUnset == [kind |-> "unset", items |-> {}]
EnvInvalid == [kind |-> "invalid", items |-> {}]
EnvArray(items) == [kind |-> "array", items |-> items]

NoClassify == [url |-> <<>>, blocked |-> FALSE, reason |-> "(no call)"]

RedditAtRest ==
  /\ redditEnv = [wildcard |-> EnvUnset, patterns |-> EnvUnset]
  /\ redditKeywords = {}
  /\ redditPatterns = {}
  /\ lastClassify = NoClassify

\* The tabs and active-tab keys of AsyncStorage: absent, or the text last
\* written ("corrupt" being text JSON.parse rejects).
TabsAbsent == [kind |-> "absent", tabs |-> <<>>, active |-> 0]
TabsCorrupt == [kind |-> "corrupt", tabs |-> <<>>, active |-> 0]
TabsStored(list, active) == [kind |-> "stored", tabs |-> list, active |-> active]

\* useState([]) / useState(null) and the refs of the provider before
\* loadData has run.
TabsAtRest ==
  /\ tabs = <<>>
  /\ activeTabId = 0
  /\ tabStorage = TabsAbsent
  /\ tabsLoaded = FALSE
  /\ nextTabId = 1
  /\ tabCooldown = FALSE

NoViewReload == [tab |-> 0, requester |-> 0, cause |-> "none"]

ViewsAtRest ==
  /\ viewLoading = <<>>
  /\ ytRequester = 0
  /\ lastViewReload = NoViewReload

AfterRedditAtRest == TabsAtRest /\ ViewsAtRest

AfterShortsAtRest == RedditAtRest /\ AfterRedditAtRest

LateAtRest == ShortsAtRest /\ AfterShortsAtRest

RestAtRest == PageAtRest /\ ParseAtRest /\ ConfigAtRest /\ AddAtRest /\ LateAtRest

\* The module variables of the blocklist manager as declared.
BlockAtRest ==
  /\ externalBlocklistCache = {}
  /\ localBlocklistCache = <<>>
  /\ allBlockedDomainsCache = NullCache
  /\ isInitialized = FALSE
  /\ lastUpdateTimestamp = 0
  /\ localFiles = <<>>
  /\ initTask = "idle"
  /\ now = 1
  /\ lastConsult = NoConsult
  /\ enabledEndpoints = {}
  /\ fetchResults = <<>>
  /\ runStart = NoRun
  /\ lastInitialize = NoInitialize

(***************************************************************************)
(* SpecUrl: processUrl over a corpus of inputs                             *)
(***************************************************************************)

UrlSchemes == { <<"https://">>, <<"http://">>, <<>> }

UrlHosts ==
  { <<"www", ".", "google", ".", "com">>,
    <<"accounts", ".", "google", ".", "com">>,
    <<"example", ".", "com">>,
    <<"sub", ".", "example", ".", "com">>,
    <<"not", "example", ".", "com">>,
    <<"www", ".", "example", ".", "com">>,
    <<"ADULT-EXAMPLE", ".", "COM">>,
    <<"duckduckgo", ".", "com">>,
    <<"www", ".", "reddit", ".", "com">>,
    <<"www", ".", "instagram", ".", "com">>,
    <<"apkpure", ".", "com">>,
    <<"example", ".", "com", ":", "8080">> }

UrlPaths ==
  { <<>>, <<"/">>, <<"/", "search">>, <<"/", "login">>,
    <<"/", "r", "/", "nsfw", "gaming">>, <<"/", "p", "/", "abc">>,
    <<"/", "app", ".", "apk">>, <<"/", "imghp">>, <<"/", "shorts">> }

UrlQueries ==
  { <<>>,
    <<"?", "q", "=", "cats">>,
    <<"?", "q", "=", "cats", "&", "tbm", "=", "isch">>,
    <<"?", "q", "=", "cats", "&", "tbm", "=", "vid">>,
    <<"?", "q", "=", "cats", "&", "udm", "=", "2">>,
    <<"?", "udm", "=", "39">>,
    <<"?", "client_id", "=", "x", "&", "state", "=", "z">>,
    <<"?", "safe", "=", "off", "&", "q", "=", "cats", "&", "safe", "=", "x">>,
    <<"?", "safe", "=", "off", "&", "q", "=", "a", ".", "xapk", "&", "safe", "=", "x">> }

UrlCorpus ==
  { s \o h \o p \o q : s \in UrlSchemes, h \in UrlHosts, p \in UrlPaths, q \in UrlQueries }
    \cup { <<"fb://", "profile", "/", "1">>, <<"intent://", "scan", "/">> }

\* What getAllBlockedDomains() may return: lowercase registrable names.
IndexChoices ==
  { {},
    { <<"example", ".", "com">> },
    { <<"adult-example", ".", "com">>, <<"google", ".", "com">> } }

InitUrl ==
  /\ inputUrl \in UrlCorpus
  /\ blockedIndex \in IndexChoices
  /\ imagesBlocking \in BOOLEAN
  /\ urlResult = NoResult
  /\ PermAtRest /\ LoadAtRest /\ NavAtRest /\ BlockAtRest /\ RestAtRest

\* A caller hands inputUrl to processUrl and keeps the result.
ProcessUrlCall ==
  /\ urlResult = NoResult
  /\ urlResult' = processUrl(inputUrl, blockedIndex, imagesBlocking)
  /\ UNCHANGED <<inputUrl, blockedIndex, imagesBlocking>>
  /\ UNCHANGED <<permVars, loadVars, navVars, blockVars, restVars>>

\* The returned URL is navigated to and classified again.
ResubmitResult ==
  /\ urlResult # NoResult
  /\ urlResult.url # inputUrl
  /\ inputUrl' = urlResult.url
  /\ urlResult' = NoResult
  /\ UNCHANGED <<blockedIndex, imagesBlocking>>
  /\ UNCHANGED <<permVars, loadVars, navVars, blockVars, restVars>>

NextUrl == ProcessUrlCall \/ ResubmitResult

SpecUrl == InitUrl /\ [][NextUrl]_vars


(***************************************************************************)
(* Properties of processUrl                                                *)
(***************************************************************************)

\* The URL processUrl classifies: 'https://' is put in front of an input
\* without a scheme.
ClassifiedUrl == IF hasScheme(inputUrl) THEN inputUrl ELSE <<"https://">> \o inputUrl

\* C1: every URL that satisfies the auth / OAuth exemption predicate is
\* returned unblocked by processUrl, whichever blocking rules it also matches.
C1_AuthExemptNeverBlocked ==
  (urlResult # NoResult /\ isGoogleAuthUrl(inputUrl)) => ~urlResult.blocked

\* The host of the classified URL, lowercased and without a leading "www.".
ClassifiedHost == StripWww(ToLower(ParseUrl(ClassifiedUrl).host))

\* Some entry of the index is the host or one of its parent domains: the
\* host from one of its label starts to its end.
HostUnderEntry ==
  \E b \in blockedIndex :
    \E i \in 1..Len(ClassifiedHost) :
      /\ i = 1 \/ ClassifiedHost[i - 1] = "."
      /\ SubSeq(ClassifiedHost, i, Len(ClassifiedHost)) = b

\* C9: for a web URL that is not auth-exempt, the blocked-domain rule fires
\* if and only if an index entry equals the host or the host ends with "."
\* followed by the entry; when no earlier rule (APK) fires, that is exactly
\* when processUrl answers with the blocked-domain reason.
C9_DomainRuleIsDotBoundarySuffix ==
  (/\ urlResult # NoResult
   /\ StartsWithHttp(ClassifiedUrl)
   /\ ParseUrl(ClassifiedUrl).ok
   /\ ~isGoogleAuthUrl(ClassifiedUrl))
  => /\ isBlockedDomain(ClassifiedUrl, blockedIndex) <=> HostUnderEntry
     /\ ~isApkDownload(ClassifiedUrl) => (urlResult.reason = ReasonDomain <=> HostUnderEntry)

\* C9 witness: a subdomain of an entry was classified and blocked by the
\* domain rule.
C9_Witness_SubdomainBlocked ==
  /\ urlResult.reason = ReasonDomain
  /\ ClassifiedHost = <<"sub", ".", "example", ".", "com">>
  /\ blockedIndex = { <<"example", ".", "com">> }


\* C23: for an input processUrl does not block, processUrl of the URL it
\* returned is not blocked and returns that URL unchanged.
C23_RewriteIsFixedPoint ==
  (urlResult # NoResult /\ ~urlResult.blocked) =>
    processUrl(urlResult.url, blockedIndex, imagesBlocking) = Passed(urlResult.url)

\* A Google search URL was rewritten with safe=active and a Reddit URL
\* with over18=0.
C23_Witness_GoogleRewritten ==
  /\ urlResult # NoResult /\ ~urlResult.blocked
  /\ urlResult.url # ClassifiedUrl
  /\ Includes(urlResult.url, <<"safe", "=", "active">>)
  /\ processUrl(urlResult.url, blockedIndex, imagesBlocking) = Passed(urlResult.url)

C23_Witness_RedditRewritten ==
  /\ urlResult # NoResult /\ ~urlResult.blocked
  /\ urlResult.url # ClassifiedUrl
  /\ Includes(urlResult.url, <<"over18", "=", "0">>)

\* The indicators a URL carries: a path that holds the section's name, or
\* the section's query parameter in the text of the URL.
ImagesPathIndicators == { <<"/", "imghp">>, <<"/", "images">> }
ImagesQueryIndicators == { <<"tbm", "=", "isch">>, <<"udm", "=", "2">> }
VideoPathIndicators == { <<"/", "videohp">>, <<"/", "videos">>, <<"/", "shorts">> }
VideoQueryIndicators ==
  { <<"tbm", "=", "vid">>, <<"tbm", "=", "shs">>, <<"udm", "=", "7">>, <<"udm", "=", "39">> }

CarriesIndicator(url, pathInds, queryInds) ==
  LET u == ParseLoose(url)
  IN /\ u.ok
     /\ \/ \E i \in pathInds : Includes(ToLower(u.path), i)
        \/ \E i \in queryInds : Includes(ToLower(u.search), i)

\* A URL whose host is google.<tld> or a subdomain of it.
IsGoogleUrl(url) ==
  LET u == ParseLoose(url)
  IN u.ok /\ \E i \in 1..Len(u.host) - 1 :
       /\ u.host[i] = "google" /\ u.host[i + 1] = "."
       /\ (i = 1 \/ u.host[i - 1] = ".")

\* C24: with Google Images blocking disabled, a Google URL that carries only
\* Images indicators is not blocked by the section rule; a Google URL outside
\* the auth exemption that carries a Videos or Shorts indicator is blocked,
\* and the section rule matches it for both values of the flag.
C24_ImagesFollowFlagVideosAlwaysBlocked ==
  (urlResult # NoResult /\ IsGoogleUrl(ClassifiedUrl)) =>
    /\ ( /\ ~imagesBlocking
         /\ CarriesIndicator(ClassifiedUrl, ImagesPathIndicators, ImagesQueryIndicators)
         /\ ~CarriesIndicator(ClassifiedUrl, VideoPathIndicators, VideoQueryIndicators) )
         => /\ ~isBlockedGoogleSection(ClassifiedUrl, imagesBlocking)
            /\ urlResult.reason # ReasonGoogleSection
    /\ ( /\ ~isGoogleAuthUrl(ClassifiedUrl)
         /\ CarriesIndicator(ClassifiedUrl, VideoPathIndicators, VideoQueryIndicators) )
         => /\ urlResult.blocked
            /\ \A images \in BOOLEAN : isBlockedGoogleSection(ClassifiedUrl, images)

C24_Witness_ImagesPassWithFlagOff ==
  /\ urlResult # NoResult /\ ~urlResult.blocked /\ ~imagesBlocking
  /\ IsGoogleUrl(ClassifiedUrl)
  /\ Includes(ClassifiedUrl, <<"udm", "=", "2">>)
  /\ isBlockedGoogleSection(ClassifiedUrl, TRUE)

C24_Witness_ShortsBlockedWithFlagOff ==
  /\ urlResult # NoResult /\ ~imagesBlocking
  /\ urlResult.reason = ReasonGoogleSection
  /\ Includes(ClassifiedUrl, <<"udm", "=", "39">>)

\* The rules in the order the specification lists them, each with its reason.
RuleOrder ==
  << ReasonApk, ReasonDomain, ReasonSearchEngine, ReasonGoogleSection,
     ReasonRedditNsfw, ReasonRedditPath, ReasonInstagram, ReasonFacebook >>

RuleMatches(i, url, index, images) ==
  CASE i = 1 -> isApkDownload(url)
    [] i = 2 -> isBlockedDomain(url, index)
    [] i = 3 -> isBlockedSearchEngine(url)
    [] i = 4 -> isBlockedGoogleSection(url, images)
    [] i = 5 -> isNsfwRedditUrl(url)
    [] i = 6 -> isBlockedRedditPath(url)
    [] i = 7 -> isBlockedInstagramUrl(url)
    [] i = 8 -> isBlockedFacebookUrl(url)

MatchingRules == { i \in 1..Len(RuleOrder) : RuleMatches(i, ClassifiedUrl, blockedIndex, imagesBlocking) }

\* C25: for a web URL the reason processUrl returns is the reason of the
\* first rule, in the order APK download, blocked domain, blocked search
\* engine, Google section, NSFW Reddit, Reddit path, Instagram, Facebook,
\* that the URL matches; it is blocked exactly when some rule matches.
C25_FirstMatchingRuleGivesReason ==
  (urlResult # NoResult /\ StartsWithHttp(ClassifiedUrl)) =>
    /\ urlResult.blocked <=> MatchingRules # {}
    /\ \A i \in MatchingRules :
         (\A j \in MatchingRules : i <= j) => urlResult.reason = RuleOrder[i]

C25_Witness_ApkBeforeDomain ==
  /\ urlResult # NoResult
  /\ {1, 2} \subseteq MatchingRules
  /\ urlResult.reason = ReasonApk

C25_Witness_DomainBeforeSection ==
  /\ urlResult # NoResult
  /\ {2, 4} \subseteq MatchingRules /\ 1 \notin MatchingRules
  /\ urlResult.reason = ReasonDomain

(***************************************************************************)
(* SpecPerm: the permission state from start-up on, with the AsyncStorage  *)
(* calls of the toggles settling in any order                              *)
(***************************************************************************)

\* What an earlier session may have left in AsyncStorage: askToRemember
\* stores normalized hostnames.
StoredChoices ==
  { [c \in Caps |-> {}],
    [c \in Caps |-> IF c = "gps" THEN {{HostA}} ELSE {}],
    [c \in Caps |-> IF c = "gps" THEN {{HostA, HostB}}
                    ELSE IF c = "notifications" THEN {{HostA}} ELSE {}] }

InitPerm ==
  /\ allowedSites = [c \in Caps |-> {}]
  /\ lockSnapshot = [c \in Caps |-> {}]
  /\ sitePermissions = NoPerms
  /\ storage \in StoredChoices
  /\ storedSitePerms = {}
  /\ pendingWrites = {}
  /\ loadState = "pending"
  /\ platform \in {"ios", "android"}
  /\ permTabHost \in RawHosts
  /\ everAllowed = [c \in Caps |-> StoredSites(c)]
  /\ lastToggle = NoToggle
  /\ prevToggle = NoToggle
  /\ storageFailed = FALSE
  /\ lastRequest = NoRequest
  /\ nToggles = 0
  /\ reloadPrompt = "none"
  /\ UrlAtRest /\ LoadAtRest /\ NavAtRest /\ BlockAtRest /\ RestAtRest

OtherThanPerm == <<urlVars, loadVars, navVars, blockVars, restVars>>

\* The resources whose grant depends on a per-site set.
PolicyResources == {"microphone", "notifications", "geolocation"}

PermLoad == LoadPersistedPermissions /\ UNCHANGED OtherThanPerm
PermTabUpdated == \E h \in RawHosts : TabUpdated(h) /\ UNCHANGED OtherThanPerm
PermToggleIOS == \E c \in Caps : ToggleIOS(c) /\ UNCHANGED OtherThanPerm
PermToggleAndroid == \E c \in Caps : ToggleAndroid(c) /\ UNCHANGED OtherThanPerm
PermToggleAndroidMic == ToggleAndroidMic /\ UNCHANGED OtherThanPerm
PermFileDownloadAllow == FileDownloadAllow /\ UNCHANGED OtherThanPerm
PermStorageGetItem == \E op \in pendingWrites : StorageGetItem(op) /\ UNCHANGED OtherThanPerm
PermStorageSetItem == \E op \in pendingWrites : StorageSetItem(op) /\ UNCHANGED OtherThanPerm
PermStorageFails == \E op \in pendingWrites : StorageFails(op) /\ UNCHANGED OtherThanPerm
NextPerm ==
  \/ PermLoad
  \/ PermTabUpdated
  \/ PermToggleIOS
  \/ PermToggleAndroid
  \/ PermToggleAndroidMic
  \/ PermFileDownloadAllow
  \/ PermStorageGetItem
  \/ PermStorageSetItem
  \/ PermStorageFails

SpecPerm == InitPerm /\ [][NextPerm]_vars


(***************************************************************************)
(* SpecSession: toggles and native permission requests in one session.     *)
(* AsyncStorage is read once, by the mount effect; the calls the toggles   *)
(* start write storage only, so they are left pending here and settle in   *)
(* SpecPerm.                                                               *)
(***************************************************************************)

\* A page or frame of any host asks for one resource.
SessionRequest ==
  \E h \in RawHosts, r \in PolicyResources :
    OnPermissionRequest(h, {r}, TRUE) /\ UNCHANGED OtherThanPerm

NextSession ==
  \/ PermLoad
  \/ PermTabUpdated
  \/ PermToggleIOS
  \/ PermToggleAndroid
  \/ PermToggleAndroidMic
  \/ PermFileDownloadAllow
  \/ SessionRequest

SpecSession == InitPerm /\ [][NextSession]_vars

(***************************************************************************)
(* SpecGate: onPermissionRequest over every batch                          *)
(***************************************************************************)

\* The in-memory sets after start-up, for each choice of the capabilities
\* that hold HostA.
InitGate ==
  /\ \E S \in SUBSET {"mic", "gps", "notifications"} :
        /\ allowedSites = [c \in Caps |-> IF c \in S THEN {HostA} ELSE {}]
        /\ storage = [c \in Caps |-> IF c \in S THEN {{HostA}} ELSE {}]
  /\ lockSnapshot = [c \in Caps |-> {}]
  /\ sitePermissions = NoPerms
  /\ storedSitePerms = {}
  /\ pendingWrites = {}
  /\ loadState = "done"
  /\ platform \in {"ios", "android"}
  /\ permTabHost = HostA
  /\ everAllowed = allowedSites
  /\ lastToggle = NoToggle
  /\ prevToggle = NoToggle
  /\ storageFailed = FALSE
  /\ lastRequest = NoRequest
  /\ nToggles = 0
  /\ reloadPrompt = "none"
  /\ UrlAtRest /\ LoadAtRest /\ NavAtRest /\ BlockAtRest /\ RestAtRest

\* request.url that new URL() rejects gives the hostname 'unknown'.
GateRequest ==
  \E h \in RawHosts \cup {HostUnknown}, batch \in SUBSET Resources, active \in BOOLEAN :
    OnPermissionRequest(h, batch, active) /\ UNCHANGED OtherThanPerm

NextGate == GateRequest

SpecGate == InitGate /\ [][NextGate]_vars

(***************************************************************************)
(* Properties of the permission gatekeeper                                 *)
(***************************************************************************)

\* The capability whose per-site set decides a resource.
CapOf(r) ==
  IF r \in {"microphone", "camera"} THEN "mic"
  ELSE IF r = "geolocation" THEN "gps"
  ELSE r

C4_LateRequestSeesLastToggle ==
  (/\ lastRequest # NoRequest
   /\ lastToggle # NoToggle
   /\ normalizeHostname(lastRequest.host) = normalizeHostname(lastToggle.host)
   /\ \A r \in lastRequest.resources : CapOf(r) = lastToggle.c)
  => lastRequest.decision = (IF lastToggle.enabled THEN "grant" ELSE "deny")

\* C5: once a per-site toggle has completed (memory replaced, live sync
\* sent, reload offered), durable storage holds the toggled membership.
C5_ToggleAcknowledgedImpliesStored ==
  lastToggle # NoToggle =>
    (normalizeHostname(lastToggle.host) \in StoredSites(lastToggle.c) <=> lastToggle.enabled)


\* C18: a protected-media resource in a native request of the active tab is
\* granted, whatever the policy of the hostname and the rest of the batch.
C18_ProtectedMediaAlwaysGranted ==
  (lastRequest.active /\ "protected_media_id" \in lastRequest.resources)
    => "protected_media_id" \in lastRequest.granted

\* A request for protected media alone, from a host with nothing allowed,
\* was granted.
C18_Witness_AloneGranted ==
  /\ lastRequest.active
  /\ lastRequest.host = HostB
  /\ lastRequest.resources = {"protected_media_id"}
  /\ \A c \in Caps : ~isCapabilityAllowed(HostB, c)
  /\ lastRequest.decision = "grant"
  /\ lastRequest.granted = {"protected_media_id"}

\* The resource names onPermissionRequest recognises.
RecognisedResources ==
  {"microphone", "camera", "notifications", "geolocation", "protected_media_id"}

\* C37: every native permission request raised by a content view, of the
\* active tab or of another tab, receives a decision: it is granted only
\* when it came from the active tab and the policy check passed for every
\* requested capability, and in every other case it is denied.
C37_EveryRequestDecided ==
  lastRequest # NoRequest =>
    /\ lastRequest.decision \in {"grant", "deny"}
    /\ lastRequest.decision = "grant"
         <=> ( /\ lastRequest.active
               /\ \A r \in lastRequest.resources : ResourceGranted(r, lastRequest.host) )

\* The statement for the requests of the active tab.
ActiveRequestDecided ==
  (lastRequest # NoRequest /\ lastRequest.active) =>
    /\ lastRequest.decision \in {"grant", "deny"}
    /\ lastRequest.decision = "grant"
         <=> \A r \in lastRequest.resources : ResourceGranted(r, lastRequest.host)

\* A request of the active tab was denied by the policy.
C37_Witness_ActiveRequestDenied ==
  /\ lastRequest.active
  /\ lastRequest.resources = {"geolocation"}
  /\ ~ResourceGranted("geolocation", lastRequest.host)
  /\ lastRequest.decision = "deny"

\* A request of a tab that is not the active one was raised.
C37_Witness_BackgroundRequestRaised ==
  /\ lastRequest # NoRequest
  /\ ~lastRequest.active
  /\ lastRequest.resources = {"camera"}

\* C19: a native request that carries a resource name outside the
\* recognised ones is never granted, in whole or in part.
C19_UnknownResourceNeverGranted ==
  (lastRequest # NoRequest /\ lastRequest.resources \ RecognisedResources # {}) =>
    /\ lastRequest.decision # "grant"
    /\ lastRequest.granted = {}

\* An unknown resource asked for by a host with every modelled capability
\* allowed, together with resources that are allowed: denied.
C19_Witness_UnknownDeniedForAllowedHost ==
  /\ lastRequest.active
  /\ lastRequest.host = HostA
  /\ lastRequest.resources = {"midi", "microphone", "protected_media_id"}
  /\ isCapabilityAllowed(HostA, "mic")
  /\ lastRequest.decision = "deny"

\* The hostnames a step for host may touch: host as given and normalized.
FormsOf(host) == {host, normalizeHostname(host)}

\* A per-site toggle step, and what it may change in memory: lastToggle'
\* names the capability and the hostname of the toggle.
ToggleStep == PermToggleIOS \/ PermToggleAndroid \/ PermToggleAndroidMic
ToggleMemoryFrame ==
  /\ \A c \in Caps \ {lastToggle'.c} : allowedSites'[c] = allowedSites[c]
  /\ \A h \in RawHosts \ FormsOf(lastToggle'.host) :
       h \in allowedSites'[lastToggle'.c] <=> h \in allowedSites[lastToggle'.c]

\* The write of a toggle reaching storage, and what it may change there.
ToggleWrites(op) ==
  /\ op.kind \in {"add", "remove"}
  /\ op.phase = "setItem"
  /\ pendingWrites' = pendingWrites \ {op}
  /\ storage' # storage
ToggleStorageFrame(op) ==
  /\ \A c \in Caps \ {op.c} : storage'[c] = storage[c]
  /\ \A h \in RawHosts \ FormsOf(op.host) :
       h \in StoredSites(op.c)' <=> h \in StoredSites(op.c)

\* C15: a toggle of capability c for hostname h leaves the in-memory and the
\* persisted sets of the other capabilities, and the membership of every
\* other hostname in c's set, as they were, in the toggle step and in the
\* storage write it causes.
C15_ToggleChangesOnlyItsEntry ==
  [][/\ ToggleStep => ToggleMemoryFrame
     /\ \A op \in pendingWrites : ToggleWrites(op) => ToggleStorageFrame(op)]_vars


\* op is the storage call the last toggle started.
IsWriteOfLastToggle(op) ==
  IF op.kind = "site"
  THEN /\ lastToggle.c = "mic"
       /\ op.perms[extractOrigin(lastToggle.host)] =
            (IF lastToggle.enabled THEN "true" ELSE "false")
  ELSE /\ op.c = lastToggle.c /\ op.host = lastToggle.host
       /\ (op.kind = "add") = lastToggle.enabled

\* The hostname allowed set holds what the last toggle chose.
HostnameSetHoldsLastToggle ==
  (lastToggle.host \in allowedSites[lastToggle.c]) = lastToggle.enabled

\* The origin map holds what the last Camera/Mic toggle chose.
OriginMapHoldsLastToggle ==
  sitePermissions[extractOrigin(lastToggle.host)] =
    (IF lastToggle.enabled THEN "true" ELSE "false")

\* A rejected write of a hostname-set toggle leaves the toggle's choice in
\* the in-memory set.
HostnameSetSurvivesFailedWrite ==
  [][\A op \in pendingWrites :
       (StorageFails(op) /\ op.kind # "site" /\ IsWriteOfLastToggle(op))
         => HostnameSetHoldsLastToggle']_vars

\* C30: when the storage write of the last permission change is rejected,
\* the in-memory policy the change was made to (the hostname allowed set,
\* or the origin map for the Camera/Mic row) holds the new value afterwards.
C30_FailedWriteKeepsChangeInMemory ==
  [][\A op \in pendingWrites :
       (StorageFails(op) /\ IsWriteOfLastToggle(op))
         => IF op.kind = "site" THEN OriginMapHoldsLastToggle'
            ELSE HostnameSetHoldsLastToggle']_vars

C30_Witness_HostnameSetKeptAfterFailure ==
  /\ storageFailed /\ pendingWrites = {}
  /\ lastToggle.c = "gps" /\ lastToggle.enabled
  /\ lastToggle.host \in allowedSites["gps"]
  /\ normalizeHostname(lastToggle.host) \notin StoredSites("gps")

C30_Witness_OriginMapWriteFailed ==
  /\ storageFailed /\ pendingWrites = {}
  /\ platform = "android"
  /\ lastToggle.c = "mic" /\ lastToggle.enabled
  /\ sitePermissions[extractOrigin(lastToggle.host)] = "unset"
  /\ storedSitePerms = {}


\* The last two toggles were: enable c for host, then disable c for host;
\* every storage call they started has settled and none was rejected.
EnabledThenDisabled(c, host) ==
  /\ prevToggle = [c |-> c, host |-> host, enabled |-> TRUE]
  /\ lastToggle = [c |-> c, host |-> host, enabled |-> FALSE]
  /\ pendingWrites = {}
  /\ ~storageFailed

\* C16: after capability c was enabled and then disabled for hostname h
\* (with or without "www."), the persisted set of c holds no entry for h, so
\* that loading it again does not allow c for h.
C16_EnableThenDisableLeavesNothingStored ==
  \A c \in Caps : \A h \in RawHosts :
    EnabledThenDisabled(c, h) => FormsOf(h) \cap StoredSites(c) = {}

\* Location was enabled and disabled for a.com and the stored set has no
\* entry for it.
C16_Witness_PlainHostRemoved ==
  /\ EnabledThenDisabled("gps", HostA)
  /\ storage["gps"] # {}
  /\ HostA \notin StoredSites("gps")

\* The persisted origin map; a key never written reads as no entry.
StoredSitePermission(origin) ==
  IF storedSitePerms = {} THEN "unset" ELSE (CHOOSE m \in storedSitePerms : TRUE)[origin]

\* C17: when no storage call is pending and none was rejected, an origin is
\* allowed in the origin map exactly when its normalized hostname is in the
\* camera/microphone set, in memory and in storage.
C17_OriginMapAgreesWithHostnameSet ==
  (pendingWrites = {} /\ ~storageFailed) =>
    \A h \in RawHosts :
      /\ sitePermissions[extractOrigin(h)] = "true"
           <=> normalizeHostname(h) \in allowedSites["mic"]
      /\ StoredSitePermission(extractOrigin(h)) = "true"
           <=> normalizeHostname(h) \in StoredSites("mic")

\* The Android Camera/Mic row enabled a.com, the write settled, and the two
\* in-memory representations agree for it.
C17_Witness_AndroidMemoryAgrees ==
  /\ platform = "android"
  /\ lastToggle = [c |-> "mic", host |-> HostA, enabled |-> TRUE]
  /\ pendingWrites = {} /\ ~storageFailed
  /\ sitePermissions[extractOrigin(HostA)] = "true"
  /\ HostA \in allowedSites["mic"]


(***************************************************************************)
(* Script injection: the scripts each injection point puts into the page   *)
(* of the active tab                                                       *)
(***************************************************************************)

\* new URL(activeTab?.url || SAFE_SEARCH_HOMEPAGE).hostname, 'unknown' where
\* the constructor throws.
TabHostname ==
  LET u == ParseUrl(IF tabUrl # <<>> THEN tabUrl ELSE SAFE_SEARCH_HOMEPAGE)
  IN IF u.ok THEN u.host ELSE HostUnknown

\* The per-tab flags of the render.
tabIsYouTube ==
  Includes(tabUrl, <<"youtube", ".", "com">>) \/ Includes(tabUrl, <<"youtu", ".", "be">>)
tabIsReddit == Includes(ToLower(tabUrl), <<"reddit", ".", "com">>)
tabIsGoogleAuth == tabUrl # <<>> /\ isGoogleAuthUrl(tabUrl)
tabIsOAuthCallback == tabUrl # <<>> /\ isOAuthCallbackUrl(tabUrl)
tabIsGoogle == tabUrl # <<>> /\ isGoogleSearchUrl(tabUrl) /\ ~tabIsGoogleAuth
skipHeavyScripts == tabIsGoogleAuth \/ tabIsOAuthCallback

\* isRedditUrl(url)
isRedditUrl(url) ==
  LET u == ParseUrl(url)
  IN u.ok /\ Includes(u.host, <<"reddit", ".", "com">>)

\* injectedJS of the render, for the active tab; the corpus holds no
\* chatgpt.com page.
injectedJS ==
  IF tabIsGoogleAuth THEN {"scrollTracking"}
  ELSE {"scrollTracking", "notificationInterception", "permissionBlocking", "mediaFilter"}
         \cup (IF isRedditUrl(tabUrl) THEN {"redditNsfwFilter"} ELSE {})

\* The injectedJavaScriptBeforeContentLoaded prop.
BeforeContentLoadedScripts ==
  IF skipHeavyScripts THEN {"debugConsoleProxy"}
  ELSE {"mediaFilterPreload", "permissionBlocking"}
         \cup (IF tabIsYouTube THEN {"youtubePreload", "youtubeFix"} ELSE {})
         \cup (IF tabIsReddit THEN {"redditEarlyCss"} ELSE {})
         \cup (IF tabIsGoogle THEN {"googleSafeSearchSuppression", "googleSectionsBlock"}
               ELSE {})

\* The injectedJavaScript prop.
InjectedJavaScriptScripts ==
  {"reloadYouTubeBridge"}
    \cup (IF skipHeavyScripts THEN {"debugConsoleProxy", "scrollTracking"} ELSE injectedJS)
    \cup (IF ~skipHeavyScripts /\ tabIsYouTube THEN {"youtubeFix"} ELSE {})
    \cup (IF ~skipHeavyScripts /\ tabIsReddit THEN {"redditNsfwFilter"} ELSE {})
    \cup (IF ~skipHeavyScripts /\ tabIsGoogle
          THEN {"googleSafeSearchSuppression", "googleSectionsBlock"} ELSE {})

\* What handleLoadStart injects 50 ms after the event: the Google UI cleanup
\* on a Google search page, then the quick block, which replaces
\* getUserMedia and getCurrentPosition for a hostname without the
\* permission and posts 'pageLoadStart'.
LoadStartScripts ==
  (IF isGoogleSearchDomain(tabUrl) THEN {"googleUiCleanup"} ELSE {})
    \cup (IF ~isCapabilityAllowed(TabHostname, "mic") THEN {"quickBlockGetUserMedia"} ELSE {})
    \cup (IF ~isCapabilityAllowed(TabHostname, "gps") THEN {"quickBlockGeolocation"} ELSE {})
    \cup {"pageLoadStartMessage"}

\* What handleLoadEnd injects: the blocking script unless the page is an
\* auth or OAuth-callback page or every permission is allowed, and, 500 ms
\* later and in every case, detectPermissionUsage, which wraps getUserMedia,
\* getCurrentPosition and watchPosition.
LoadEndScripts ==
  LET isAuthUrl == tabUrl # <<>> /\ (isGoogleAuthUrl(tabUrl) \/ isOAuthCallbackUrl(tabUrl))
      anyDisabled == \E c \in Caps : ~isCapabilityAllowed(TabHostname, c)
  IN (IF ~isAuthUrl /\ anyDisabled THEN {"permissionReblock"} ELSE {})
       \cup {"permissionUsageDetection"}

Injection(point, scripts) == [point |-> point, url |-> tabUrl, scripts |-> scripts]

(***************************************************************************)
(* SpecLoad: load events, reload requests and the reload a toggle offers   *)
(***************************************************************************)

Reload(cause) == [cause |-> cause, whileLoading |-> isLoadingRef]

\* handleLoadStart
handleLoadStart ==
  /\ isLoadingRef' = TRUE
  /\ lastInjection' = Injection("loadStart", LoadStartScripts)
  /\ UNCHANGED <<ytPendingStopThenReloadRef, lastReload>>
  /\ UNCHANGED <<urlVars, permVars, navVars, blockVars, afterPageVars>>

\* handleLoadEnd without the stop-then-reload branch.
handleLoadEndNoPendingBranch ==
  /\ isLoadingRef
  /\ isLoadingRef' = FALSE
  /\ lastInjection' = Injection("loadEnd", LoadEndScripts)
  /\ UNCHANGED <<ytPendingStopThenReloadRef, lastReload>>
  /\ UNCHANGED <<urlVars, permVars, navVars, blockVars, afterPageVars>>

\* handleLoadEnd: the pending YouTube stop-then-reload is performed here.
handleLoadEnd ==
  /\ isLoadingRef
  /\ isLoadingRef' = FALSE
  /\ IF ytPendingStopThenReloadRef
     THEN /\ ytPendingStopThenReloadRef' = FALSE
          /\ lastReload' = [cause |-> "ytLoadEnd", whileLoading |-> FALSE]
          /\ UNCHANGED lastInjection
     ELSE /\ lastInjection' = Injection("loadEnd", LoadEndScripts)
          /\ UNCHANGED <<ytPendingStopThenReloadRef, lastReload>>
  /\ UNCHANGED <<urlVars, permVars, navVars, blockVars, afterPageVars>>

\* handleWebViewMessage, type 'ytStopThenReload' (posted by the YouTube
\* script after it changed the restricted-mode cookie).
MessageYtStopThenReload ==
  /\ IF ~isLoadingRef
     THEN /\ lastReload' = Reload("ytStopThenReload")
          /\ ytPendingStopThenReloadRef' = FALSE
     ELSE /\ ytPendingStopThenReloadRef' = TRUE
          /\ UNCHANGED lastReload
  /\ UNCHANGED isLoadingRef
  /\ UNCHANGED <<urlVars, permVars, navVars, blockVars, restVars>>

\* handleWebViewMessage, type 'reload' (older injected scripts).
MessageReload ==
  /\ lastReload' = Reload("reloadMessage")
  /\ UNCHANGED <<isLoadingRef, ytPendingStopThenReloadRef>>
  /\ UNCHANGED <<urlVars, permVars, navVars, blockVars, restVars>>

\* handleRefresh: the user's refresh button.
handleRefresh ==
  /\ lastReload' = Reload("handleRefresh")
  /\ UNCHANGED <<isLoadingRef, ytPendingStopThenReloadRef>>
  /\ UNCHANGED <<urlVars, permVars, navVars, blockVars, restVars>>

OtherThanPermAndPrompt == <<urlVars, loadVars, navVars, blockVars, restVars>>

\* The location toggle of either platform and the Android Camera/Mic row;
\* the other rows offer the same reload as the location row.
LoadToggleIOS == ToggleIOS("gps") /\ UNCHANGED OtherThanPermAndPrompt
LoadToggleAndroid == ToggleAndroid("gps") /\ UNCHANGED OtherThanPermAndPrompt
LoadToggleAndroidMic == ToggleAndroidMic /\ UNCHANGED OtherThanPermAndPrompt

\* 'Reload' pressed in the "Permissions Changed" alert:
\* reloadWithPermissionDetection(hostname), or webViewRef.current.reload()
\* for the Android Camera/Mic row.
PromptReload ==
  /\ reloadPrompt # "none"
  /\ reloadPrompt' = "none"
  /\ lastReload' = Reload(IF reloadPrompt = "detect" THEN "reloadWithPermissionDetection"
                          ELSE "permissionsChangedReload")
  /\ lastRequest' = NoRequest
  /\ UNCHANGED <<isLoadingRef, ytPendingStopThenReloadRef>>
  /\ UNCHANGED <<allowedSites, lockSnapshot, sitePermissions, storage, storedSitePerms,
                 pendingWrites, loadState, platform, permTabHost, everAllowed,
                 lastToggle, prevToggle, storageFailed, nToggles>>
  /\ UNCHANGED <<urlVars, navVars, blockVars, restVars>>

\* 'Cancel' pressed in the alert.
PromptCancel ==
  /\ reloadPrompt # "none"
  /\ reloadPrompt' = "none"
  /\ lastRequest' = NoRequest
  /\ UNCHANGED <<allowedSites, lockSnapshot, sitePermissions, storage, storedSitePerms,
                 pendingWrites, loadState, platform, permTabHost, everAllowed,
                 lastToggle, prevToggle, storageFailed, nToggles>>
  /\ UNCHANGED <<urlVars, loadVars, navVars, blockVars, restVars>>

InitLoad ==
  /\ allowedSites = [c \in Caps |-> {}]
  /\ lockSnapshot = [c \in Caps |-> {}]
  /\ sitePermissions = NoPerms
  /\ storage = [c \in Caps |-> {}]
  /\ storedSitePerms = {}
  /\ pendingWrites = {}
  /\ loadState = "done"
  /\ platform \in {"ios", "android"}
  /\ permTabHost \in {HostA, HostWwwA}
  /\ everAllowed = [c \in Caps |-> {}]
  /\ lastToggle = NoToggle
  /\ prevToggle = NoToggle
  /\ storageFailed = FALSE
  /\ lastRequest = NoRequest
  /\ nToggles = 0
  /\ reloadPrompt = "none"
  /\ UrlAtRest /\ LoadAtRest /\ NavAtRest /\ BlockAtRest /\ RestAtRest

NextLoad ==
  \/ handleLoadStart
  \/ handleLoadEnd
  \/ MessageYtStopThenReload
  \/ MessageReload
  \/ handleRefresh
  \/ LoadToggleIOS
  \/ LoadToggleAndroid
  \/ LoadToggleAndroidMic
  \/ PromptReload
  \/ PromptCancel

SpecLoad == InitLoad /\ [][NextLoad]_vars

\* The content view ends every load it started with a load-end callback
\* (onLoadEnd, after success, failure or stopLoading).
SpecLoadFair == InitLoad /\ [][NextLoad]_vars /\ WF_vars(handleLoadEnd)

YtLoadEndReload == [cause |-> "ytLoadEnd", whileLoading |-> FALSE]

\* A stop-then-reload is pending only while a load is in progress: once a
\* load-end has been handled the flag is clear.
PendingOnlyWhileLoading == ytPendingStopThenReloadRef => isLoadingRef

\* With no load in progress the message is answered by a reload at once and
\* leaves nothing pending; during a load it issues no reload itself.
MessageAnsweredAtOnceWhenIdle ==
  MessageYtStopThenReload =>
    IF isLoadingRef
    THEN ytPendingStopThenReloadRef' /\ lastReload' = lastReload
    ELSE ~ytPendingStopThenReloadRef' /\ lastReload' = Reload("ytStopThenReload")

\* A pending request stays pending until the step that ends the load, and
\* that step issues the reload; a load-end with nothing pending issues none.
PendingClearedByOneReload ==
  /\ (ytPendingStopThenReloadRef /\ ~ytPendingStopThenReloadRef')
       => (isLoadingRef /\ ~isLoadingRef' /\ lastReload' = YtLoadEndReload)
  /\ (~ytPendingStopThenReloadRef /\ isLoadingRef /\ ~isLoadingRef')
       => lastReload' = lastReload

C33_Witness_ReloadAtOnce ==
  /\ lastReload = [cause |-> "ytStopThenReload", whileLoading |-> FALSE]
  /\ ~ytPendingStopThenReloadRef

(***************************************************************************)
(* SpecInject: the injection points of the active tab's content view over  *)
(* a corpus of pages                                                       *)
(***************************************************************************)

PageCorpus ==
  { <<"https://", "accounts", ".", "google", ".", "com", "/", "signin">>,
    <<"https://", "example", ".", "com", "/", "cb", "?", "code", "=", "x", "&",
      "state", "=", "y">>,
    <<"https://", "www", ".", "google", ".", "com", "/", "search", "?", "q", "=", "cats">>,
    <<"https://", "m", ".", "youtube", ".", "com", "/">>,
    <<"https://", "www", ".", "reddit", ".", "com", "/">>,
    <<"https://", "example", ".", "com", "/">> }

\* The hostnames of the corpus, as the allowed sets store them.
PageHosts == {normalizeHostname(ParseUrl(u).host) : u \in PageCorpus}

\* After start-up: no site has a permission, or every site of the corpus
\* has every permission.
InitInject ==
  /\ \E S \in {{}, PageHosts} : allowedSites = [c \in Caps |-> S]
  /\ lockSnapshot = [c \in Caps |-> {}]
  /\ sitePermissions = NoPerms
  /\ storage = [c \in Caps |-> {}]
  /\ storedSitePerms = {}
  /\ pendingWrites = {}
  /\ loadState = "done"
  /\ platform \in {"ios", "android"}
  /\ permTabHost = HostA
  /\ everAllowed = allowedSites
  /\ lastToggle = NoToggle
  /\ prevToggle = NoToggle
  /\ storageFailed = FALSE
  /\ lastRequest = NoRequest
  /\ nToggles = 0
  /\ reloadPrompt = "none"
  /\ tabUrl \in PageCorpus
  /\ previousUrlRef = <<>>
  /\ authorizedGoogleUrls = {}
  /\ lastNav = NoNav
  /\ UrlAtRest /\ LoadAtRest /\ BlockAtRest /\ RestAtRest

\* updateTab(activeTabId, {url}): the active tab shows another page.
PageNavigates ==
  \E url \in PageCorpus :
    /\ tabUrl' = url
    /\ UNCHANGED <<previousUrlRef, authorizedGoogleUrls, lastNav>>
    /\ UNCHANGED <<urlVars, permVars, loadVars, blockVars, restVars>>

\* The content view runs the injectedJavaScriptBeforeContentLoaded prop.
InjectBeforeContentLoaded ==
  /\ lastInjection' = Injection("beforeContentLoaded", BeforeContentLoadedScripts)
  /\ UNCHANGED <<urlVars, permVars, loadVars, navVars, blockVars, afterPageVars>>

\* The content view runs the injectedJavaScript prop.
InjectAfterLoad ==
  /\ lastInjection' = Injection("afterLoad", InjectedJavaScriptScripts)
  /\ UNCHANGED <<urlVars, permVars, loadVars, navVars, blockVars, afterPageVars>>

NextInject ==
  \/ PageNavigates
  \/ InjectBeforeContentLoaded
  \/ InjectAfterLoad
  \/ handleLoadStart
  \/ handleLoadEnd
  \/ MessageYtStopThenReload

SpecInject == InitInject /\ [][NextInject]_vars

\* The scripts that only track scrolling, forward the console, or post a
\* message to the shell.
BaselineScripts ==
  {"debugConsoleProxy", "scrollTracking", "pageLoadStartMessage", "reloadYouTubeBridge"}

\* The page an injection was made into is an auth or OAuth page.
InjectedIntoAuthPage ==
  /\ lastInjection.point # "none"
  /\ (isGoogleAuthUrl(lastInjection.url) \/ isOAuthCallbackUrl(lastInjection.url))

\* C22: at every injection point, a tab whose URL is an auth or OAuth URL
\* receives baseline scripts only and no content-mediation script.
C22_AuthPageGetsBaselineOnly ==
  InjectedIntoAuthPage => lastInjection.scripts \subseteq BaselineScripts

\* The two props skip the heavy scripts for the Google sign-in page.
C22_Witness_PropsSkipHeavyScripts ==
  /\ lastInjection.point = "afterLoad"
  /\ isGoogleAuthUrl(lastInjection.url)
  /\ lastInjection.scripts = {"reloadYouTubeBridge", "debugConsoleProxy", "scrollTracking"}

\* A page that is not an auth page receives content-mediation scripts.
C22_Witness_OrdinaryPageMediated ==
  /\ lastInjection.point = "beforeContentLoaded"
  /\ ~isGoogleAuthUrl(lastInjection.url) /\ ~isOAuthCallbackUrl(lastInjection.url)
  /\ "permissionBlocking" \in lastInjection.scripts

\* The reloads that a policy change causes: the restricted-mode cookie
\* change (ytStopThenReload, at once or at load end) and the reload offered
\* after a per-site toggle.
PolicyReloadCauses ==
  {"ytStopThenReload", "ytLoadEnd", "reloadWithPermissionDetection", "permissionsChangedReload"}

\* C6: reload() is never called because of a policy change while
\* isLoadingRef is true.
C6_NoPolicyReloadWhileLoading ==
  lastReload.cause \in PolicyReloadCauses => ~lastReload.whileLoading

\* The part of C6 that the YouTube path keeps: its reload is issued from
\* handleLoadEnd or when nothing is loading.
C6_Witness_YtReloadWaitsForLoadEnd ==
  /\ lastReload.cause = "ytLoadEnd"
  /\ ~lastReload.whileLoading
  /\ ~ytPendingStopThenReloadRef


(***************************************************************************)
(* SpecNav: the Google navigation policy of the two navigation hooks       *)
(***************************************************************************)

isGoogleHomePage(url) ==
  LET u == ParseLoose(url)
      path == ToLower(u.path)
  IN u.ok /\ (path = <<"/">> \/ path = <<"/", "webhp">>)

isReferrerFromSafeSearch(referrerUrl) ==
  LET u == ParseLoose(referrerUrl)
  IN /\ referrerUrl # <<>>
     /\ u.ok
     /\ StripWww(ToLower(u.host)) = <<"safesearchengine", ".", "com">>

\* specialSchemes.includes(url.split(':')[0].toLowerCase())
isSpecialScheme(url) == Len(url) > 0 /\ url[1] \in AppSchemes

TAB_DEFAULT_URL == <<"https://", "safesearchengine", ".", "com", "/">>

NavCorpus ==
  { SAFE_SEARCH_HOMEPAGE,
    <<"https://", "www", ".", "google", ".", "com", "/">>,
    <<"https://", "www", ".", "google", ".", "co", ".", "uk", "/", "webhp">>,
    <<"https://", "www", ".", "google", ".", "com", "/", "search", "?", "q", "=", "cats">>,
    <<"https://", "www", ".", "google", ".", "com", "/", "search", "?", "q", "=", "cats",
      "&", "safe", "=", "active">>,
    <<"https://", "www", ".", "google", ".", "com", "/", "search", "?", "q", "=", "dogs",
      "&", "safe", "=", "active">>,
    <<"https://", "www", ".", "google", ".", "com", "/", "search", "?", "q", "=", "cats",
      "&", "safe", "=", "active", "&", "tbm", "=", "vid">>,
    <<"https://", "www", ".", "google", ".", "com", "/", "?", "file", "=", "apk">>,
    <<"https://", "accounts", ".", "google", ".", "com", "/", "signin">>,
    <<"https://", "example", ".", "com", "/">>,
    <<"https://", "example", ".", "com", "/", "?", "ref", "=", "google", ".", "com">>,
    <<"fb://", "profile", "/", "1">> }

\* The front pages of the sites whose origins the origin map can hold.
SitePages == {extractOrigin(h) \o <<"/">> : h \in RawHosts}

\* Every URL the hooks can meet: a request's URL, the tab's first URL, a
\* URL rewritten by enforceGoogleSafeSearch.
NavUrls ==
  NavCorpus \cup {TAB_DEFAULT_URL} \cup {enforceGoogleSafeSearch(u) : u \in NavCorpus}
    \cup SitePages

\* extractOrigin(url) of the screen: new URL(url).origin, null (<<>>) where
\* the constructor throws.  The corpus holds no port.
UrlOrigin(url) ==
  LET parsed == ParseUrl(url)
  IN IF parsed.ok THEN <<parsed.scheme>> \o parsed.host ELSE <<>>

\* The classifier's answers for the URLs of NavUrls, computed once.
UrlFacts(u) ==
    [isGoogleAuthUrl |-> isGoogleAuthUrl(u),
     isGoogleSearchDomain |-> isGoogleSearchDomain(u),
     isGoogleHomePage |-> isGoogleHomePage(u),
     isReferrerFromSafeSearch |-> isReferrerFromSafeSearch(u),
     includesGoogleCom |-> Includes(u, <<"google", ".", "com">>),
     isSpecialScheme |-> isSpecialScheme(u),
     isApkDownload |-> isApkDownload(u),
     isBlockedGoogleSection |-> [images \in BOOLEAN |-> isBlockedGoogleSection(u, images)],
     processUrlBlocked |-> [images \in BOOLEAN |-> processUrl(u, {}, images).blocked],
     enforceGoogleSafeSearch |-> enforceGoogleSafeSearch(u),
     origin |-> UrlOrigin(u),
     q |-> IF ParseUrl(u).ok THEN ParamGet(ParamsOf(ParseUrl(u).search), <<"q">>)
           ELSE NoParam]

NavFacts == [u \in NavUrls |-> UrlFacts(u)]

\* activeTab?.url || previousUrlRef.current
currentReferrer == IF tabUrl # <<>> THEN tabUrl ELSE previousUrlRef

\* checkGoogleUrlAuthorization(targetUrl) against authorizedGoogleUrls.current
checkGoogleUrlAuthorization(targetUrl, facts) ==
  \/ targetUrl \in authorizedGoogleUrls
  \/ /\ facts[targetUrl].q # NoParam
     /\ facts[targetUrl].q # <<>>
     /\ \E authUrl \in authorizedGoogleUrls : facts[authUrl].q = facts[targetUrl].q

\* currentReferrer && (isGoogleSearchDomain(..) || isGoogleAuthUrl(..) ||
\* currentReferrer.includes('google.com'))
alreadyOnGoogle(facts) ==
  /\ currentReferrer # <<>>
  /\ \/ facts[currentReferrer].isGoogleSearchDomain
     \/ facts[currentReferrer].isGoogleAuthUrl
     \/ facts[currentReferrer].includesGoogleCom

\* The condition that opens the Google access check in both hooks.
GoogleAccessChecked(url, facts) ==
  /\ facts[url].isGoogleSearchDomain
  /\ ~facts[url].isGoogleAuthUrl
  /\ ~(currentReferrer # <<>> /\ facts[currentReferrer].isGoogleAuthUrl)

\* alreadyOnGoogle || isReferrerFromSafeSearch(currentReferrer) || isAuthorized
GoogleAccessAuthorized(url, facts) ==
  \/ alreadyOnGoogle(facts)
  \/ (currentReferrer # <<>> /\ facts[currentReferrer].isReferrerFromSafeSearch)
  \/ checkGoogleUrlAuthorization(url, facts)

\* What a hook's answer makes the content view do with the URL it was asked
\* about: the load is refused (the will-navigate hook answered false),
\* replaced by the tab's new source (updateTab), stopped (stopLoading()),
\* left for the previous history entry (goBack() with an entry to go back
\* to), or goes on.  goBack() without a previous entry does nothing.
ViewEffect(outcome, canGoBack) ==
  IF outcome \in {"redirectHomepage", "redirectUnauthorized", "enforceSafeSearch"}
  THEN "redirected"
  ELSE IF outcome \in {"openExternally", "apkAlert", "sectionRefused", "shortsAlert",
                       "blockedAlert"}
  THEN "refused"
  ELSE IF outcome = "stopLoading" THEN "stopped"
  ELSE IF outcome = "goBackAlert" THEN (IF canGoBack THEN "wentBack" ELSE "loading")
  ELSE "loading"

NavRecord(hook, url, outcome, redirect, canGoBack, facts) ==
  [hook |-> hook, active |-> TRUE, url |-> url, referrer |-> currentReferrer,
   authorized |-> checkGoogleUrlAuthorization(url, facts),
   allowed |-> outcome \in {"allowed", "committed"},
   redirect |-> redirect, outcome |-> outcome,
   view |-> ViewEffect(outcome, canGoBack)]

OtherThanNav == <<permVars, loadVars, blockVars, restVars>>

\* sitePermissionsRef.current[origin]: "unset" where the map has no entry.
NavigationPermissionStatus(origin) ==
  IF origin \in DOMAIN sitePermissions THEN sitePermissions[origin] ELSE "unset"

\* handleShouldStartLoadWithRequest(request) up to the processUrl check; the
\* hook answers true ("allowed") or false (every other outcome).  The
\* corpus holds no YouTube URL, so the Shorts rule never applies.
ContentPolicyOutcome(url, facts) ==
  IF facts[url].isSpecialScheme THEN "openExternally"
  ELSE IF facts[url].isApkDownload THEN "apkAlert"
  ELSE IF GoogleAccessChecked(url, facts) /\ facts[url].isGoogleHomePage THEN "redirectHomepage"
  ELSE IF GoogleAccessChecked(url, facts) /\ ~GoogleAccessAuthorized(url, facts) THEN "redirectUnauthorized"
  ELSE IF facts[url].isBlockedGoogleSection[imagesBlocking] THEN "sectionRefused"
  ELSE IF facts[url].processUrlBlocked[imagesBlocking] THEN "blockedAlert"
  ELSE "allowed"

\* The whole decision of handleShouldStartLoadWithRequest: the content rules,
\* then the "navigation-based permission control" block.  The branch taken
\* for permissionStatus === false holds comments only, so both branches
\* reach the closing return true.
ShouldStartLoadOutcome(url, facts) ==
  LET earlier == ContentPolicyOutcome(url, facts)
      origin == facts[url].origin
  IN IF earlier # "allowed" THEN earlier
     ELSE IF origin # <<>> /\ StartsWithHttp(origin)
          THEN IF NavigationPermissionStatus(origin) = "false"
               THEN "allowed"
               ELSE "allowed"
     ELSE "allowed"

handleShouldStartLoadWithRequest(url, facts) ==
  LET outcome == ShouldStartLoadOutcome(url, facts)
      redirected == outcome \in {"redirectHomepage", "redirectUnauthorized"}
      authorizes == /\ outcome \in {"sectionRefused", "blockedAlert", "allowed"}
                    /\ GoogleAccessChecked(url, facts)
  IN /\ tabUrl' = IF redirected THEN SAFE_SEARCH_HOMEPAGE ELSE tabUrl
     /\ authorizedGoogleUrls' =
          IF authorizes THEN authorizedGoogleUrls \cup {url} ELSE authorizedGoogleUrls
     /\ lastNav' = NavRecord("shouldStartLoad", url, outcome,
                             IF redirected THEN SAFE_SEARCH_HOMEPAGE ELSE <<>>,
                             FALSE, facts)
     /\ UNCHANGED previousUrlRef

\* handleNavigationStateChange(navState) up to the updateTab that commits
\* navState.url to the tab.
NavigationStateOutcome(url, facts) ==
  IF GoogleAccessChecked(url, facts) /\ facts[url].isGoogleHomePage THEN "redirectHomepage"
  ELSE IF GoogleAccessChecked(url, facts) /\ facts[url].isBlockedGoogleSection[imagesBlocking]
       THEN "stopLoading"
  ELSE IF GoogleAccessChecked(url, facts) /\ facts[url].enforceGoogleSafeSearch # url
       THEN "enforceSafeSearch"
  ELSE IF GoogleAccessChecked(url, facts) /\ ~GoogleAccessAuthorized(url, facts) THEN "redirectUnauthorized"
  ELSE IF facts[url].processUrlBlocked[imagesBlocking] THEN "goBackAlert"
  ELSE "committed"

handleNavigationStateChange(url, canGoBack, facts) ==
  LET outcome == NavigationStateOutcome(url, facts)
      redirected == outcome \in {"redirectHomepage", "redirectUnauthorized"}
      newTabUrl == IF redirected THEN SAFE_SEARCH_HOMEPAGE
                   ELSE IF outcome = "enforceSafeSearch"
                        THEN facts[url].enforceGoogleSafeSearch
                   ELSE IF outcome = "committed" THEN url
                   ELSE tabUrl
      authorizes == outcome \in {"goBackAlert", "committed"} /\ GoogleAccessChecked(url, facts)
  IN /\ tabUrl' = newTabUrl
     /\ previousUrlRef' = IF redirected THEN <<>>
                          ELSE IF outcome = "committed" THEN url
                          ELSE previousUrlRef
     /\ authorizedGoogleUrls' =
          IF authorizes THEN authorizedGoogleUrls \cup {url} ELSE authorizedGoogleUrls
     /\ lastNav' = NavRecord("navigationStateChange", url, outcome,
                             IF outcome \in {"redirectHomepage", "redirectUnauthorized",
                                             "enforceSafeSearch"}
                             THEN newTabUrl ELSE <<>>, canGoBack, facts)

\* A fresh tab on the default page.
InitNavTab ==
  /\ tabUrl = TAB_DEFAULT_URL
  /\ previousUrlRef = <<>>
  /\ authorizedGoogleUrls = {}
  /\ lastNav = NoNav
  /\ inputUrl = <<>>
  /\ blockedIndex = {}
  /\ urlResult = NoResult
  /\ PermAtRest /\ LoadAtRest /\ BlockAtRest /\ PageAtRest /\ ParseAtRest /\ AddAtRest
  /\ LateAtRest

InitNav ==
  /\ InitNavTab
  /\ imagesBlocking \in BOOLEAN
  /\ ConfigAtRest

NavShouldStartLoad ==
  \E url \in NavCorpus :
    handleShouldStartLoadWithRequest(url, NavFacts) /\ UNCHANGED <<urlVars, OtherThanNav>>

NavStateChange ==
  \E url \in NavCorpus \ {<<"fb://", "profile", "/", "1">>}, canGoBack \in BOOLEAN :
    handleNavigationStateChange(url, canGoBack, NavFacts) /\ UNCHANGED <<urlVars, OtherThanNav>>

\* The pages a tab that is not the active one may be showing.
BackgroundPages ==
  { <<"https://", "example", ".", "com", "/">>,
    <<"https://", "www", ".", "google", ".", "com", "/", "search", "?", "q", "=", "cats",
      "&", "safe", "=", "active">> }

\* onShouldStartLoadWithRequest of a tab that is not the active one: the
\* wrapper answers true without calling the handler.
BackgroundShouldStartLoad ==
  \E url \in NavCorpus, from \in BackgroundPages :
    /\ lastNav' = [hook |-> "shouldStartLoad", active |-> FALSE, url |-> url,
                   referrer |-> from,
                   authorized |-> checkGoogleUrlAuthorization(url, NavFacts),
                   allowed |-> TRUE, redirect |-> <<>>, outcome |-> "allowed",
                   view |-> "loading"]
    /\ UNCHANGED <<tabUrl, previousUrlRef, authorizedGoogleUrls>>
    /\ UNCHANGED <<urlVars, OtherThanNav>>

NextNav == NavShouldStartLoad \/ NavStateChange \/ BackgroundShouldStartLoad

SpecNav == InitNav /\ [][NextNav]_vars

\* The outcomes in which a hook found the URL blocked by the classifier
\* (processUrl, isApkDownload) or by the Google section rule.
BlockedOutcomes == {"apkAlert", "sectionRefused", "blockedAlert", "stopLoading", "goBackAlert"}

\* C21: whenever a hook of the active tab finds the URL blocked, the content
\* view does not go on loading it: the load is refused, stopped, replaced
\* by a redirect or left for the previous page.
C21_BlockedUrlNeverLeftLoading ==
  (lastNav.active /\ lastNav.outcome \in BlockedOutcomes) => lastNav.view # "loading"

\* The state-change hook met a blocked Google section and stopped the load.
C21_Witness_SectionStopped ==
  /\ lastNav.hook = "navigationStateChange"
  /\ lastNav.outcome = "stopLoading"
  /\ NavFacts[lastNav.url].isBlockedGoogleSection[imagesBlocking]
  /\ lastNav.view = "stopped"

\* The will-navigate hook met a blocked Google section and refused the load.
C21_Witness_SectionRefused ==
  /\ lastNav.hook = "shouldStartLoad"
  /\ lastNav.active
  /\ lastNav.outcome = "sectionRefused"
  /\ lastNav.view = "refused"

(***************************************************************************)
(* SpecNavGate: the will-navigate hook beside the Android Camera/Mic row,  *)
(* whose saveSitePermissions writes the origin map the hook reads.         *)
(***************************************************************************)

InitNavGate ==
  /\ allowedSites = [c \in Caps |-> {}]
  /\ lockSnapshot = [c \in Caps |-> {}]
  /\ sitePermissions = NoPerms
  /\ storage = [c \in Caps |-> {}]
  /\ storedSitePerms = {}
  /\ pendingWrites = {}
  /\ loadState = "done"
  /\ platform = "android"
  /\ permTabHost = HostA
  /\ everAllowed = [c \in Caps |-> {}]
  /\ lastToggle = NoToggle
  /\ prevToggle = NoToggle
  /\ storageFailed = FALSE
  /\ lastRequest = NoRequest
  /\ nToggles = 0
  /\ reloadPrompt = "none"
  /\ UrlAtRest /\ LoadAtRest /\ NavAtRest /\ BlockAtRest /\ RestAtRest

\* The content view asks the hook about the front page of a site.
GateShouldStartLoad ==
  \E url \in SitePages \cup {<<"fb://", "profile", "/", "1">>} :
    handleShouldStartLoadWithRequest(url, NavFacts) /\ UNCHANGED <<urlVars, OtherThanNav>>

NextNavGate ==
  \/ PermTabUpdated
  \/ PermToggleAndroidMic
  \/ PermStorageSetItem
  \/ PermStorageFails
  \/ GateShouldStartLoad

SpecNavGate == InitNavGate /\ [][NextNavGate]_vars

(***************************************************************************)
(* Properties of the navigation-based permission control                   *)
(***************************************************************************)

\* C20: the will-navigate hook refuses a navigation that no content rule
\* refuses exactly when the origin map holds "false" for the target's
\* origin; an origin that is unset or allowed is never refused.
C20_NavigationRefusedExactlyWhenDenied ==
  [][GateShouldStartLoad /\ ContentPolicyOutcome(lastNav'.url, NavFacts) = "allowed"
       => (~lastNav'.allowed
             <=> NavigationPermissionStatus(NavFacts[lastNav'.url].origin) = "false")]_vars

\* The hook has answered for the page of an origin the user allowed.
C20_Witness_AllowedOriginNavigated ==
  /\ lastNav.hook = "shouldStartLoad"
  /\ lastNav.url \in SitePages
  /\ NavigationPermissionStatus(NavFacts[lastNav.url].origin) = "true"
  /\ lastNav.allowed

\* The hook has answered true for the page of an origin the map denies.
C20_Witness_DeniedOriginNavigated ==
  /\ lastNav.hook = "shouldStartLoad"
  /\ lastNav.url \in SitePages
  /\ NavigationPermissionStatus(NavFacts[lastNav.url].origin) = "false"
  /\ lastNav.allowed


(***************************************************************************)
(* Properties of the Google navigation policy                              *)
(***************************************************************************)

\* The conditions under which the policy lets a Google search-domain
\* navigation proceed: the page being left is the approved search homepage,
\* a Google search-domain page or a Google-auth page, or the target is
\* authorized in session memory.
NavPermitted ==
  \/ lastNav.authorized
  \/ /\ lastNav.referrer # <<>>
     /\ \/ NavFacts[lastNav.referrer].isReferrerFromSafeSearch
        \/ NavFacts[lastNav.referrer].isGoogleSearchDomain
        \/ NavFacts[lastNav.referrer].isGoogleAuthUrl

\* C7: a navigation to a non-auth URL on the Google search domain proceeds
\* only if it is permitted (approved referrer, leaving a Google or
\* Google-auth page, or authorized target); otherwise it is refused and the
\* tab is sent to the approved search homepage.
C7_GoogleAccessOnlyWhenPermitted ==
  lastNav.hook # "none" =>
    ((NavFacts[lastNav.url].isGoogleSearchDomain /\ ~NavFacts[lastNav.url].isGoogleAuthUrl)
      => /\ lastNav.allowed => NavPermitted
         /\ ~NavPermitted => (~lastNav.allowed /\ lastNav.redirect = SAFE_SEARCH_HOMEPAGE))

\* A Google search from a page that is neither approved nor Google, with
\* nothing authorized, was refused and redirected.
C7_Witness_UnapprovedReferrerRedirected ==
  /\ lastNav.hook = "shouldStartLoad"
  /\ lastNav.active
  /\ lastNav.referrer = <<"https://", "example", ".", "com", "/">>
  /\ lastNav.outcome = "redirectUnauthorized"
  /\ tabUrl = SAFE_SEARCH_HOMEPAGE

\* An auth flow is active: the target or the page being left is an auth URL.
NavAuthFlow ==
  \/ NavFacts[lastNav.url].isGoogleAuthUrl
  \/ lastNav.referrer # <<>> /\ NavFacts[lastNav.referrer].isGoogleAuthUrl

\* C8: every navigation to the Google homepage ("/" or "/webhp" on the
\* Google search domain) outside an auth flow is refused and the tab is
\* sent to the approved search homepage, whatever the referrer and the
\* session memory.
C8_GoogleHomepageAlwaysRedirected ==
  lastNav.hook # "none" =>
    ((/\ NavFacts[lastNav.url].isGoogleSearchDomain
      /\ NavFacts[lastNav.url].isGoogleHomePage
      /\ ~NavAuthFlow)
      => (~lastNav.allowed /\ lastNav.redirect = SAFE_SEARCH_HOMEPAGE))

\* The homepage asked for in the active tab, from the approved search page,
\* was redirected.
C8_Witness_HomepageRedirected ==
  /\ lastNav.active
  /\ lastNav.url = <<"https://", "www", ".", "google", ".", "com", "/">>
  /\ NavFacts[lastNav.referrer].isReferrerFromSafeSearch
  /\ lastNav.outcome = "redirectHomepage"
  /\ tabUrl = SAFE_SEARCH_HOMEPAGE


\* What the Google access policy did with a navigation, read from a hook's
\* outcome: it sent the tab to the approved search homepage, it let the URL
\* pass (to the later rules of the hook, or into the tab), or another rule
\* refused the URL before the policy's authorization check was reached.
GooglePolicyOf(outcome) ==
  IF outcome \in {"redirectHomepage", "redirectUnauthorized"} THEN "redirect"
  ELSE IF outcome \in {"openExternally", "apkAlert", "stopLoading"} THEN "undecided"
  ELSE "allow"

PoliciesAgree(a, b) == a = "undecided" \/ b = "undecided" \/ a = b

\* The URLs both hooks can be asked about.
BothHooksUrls == NavCorpus \ {<<"fb://", "profile", "/", "1">>}

\* C34: for the same target URL, referrer and session memory the
\* will-navigate hook and the navigation-state-changed hook reach the same
\* Google-policy outcome, allow or redirect to the approved search homepage:
\* whenever either hook is called, the other hook, asked about the same URL
\* in the same state, decides the same.
C34_HooksAgreeOnGooglePolicy ==
  [][\A url \in BothHooksUrls :
       ( \/ handleShouldStartLoadWithRequest(url, NavFacts)
         \/ \E canGoBack \in BOOLEAN : handleNavigationStateChange(url, canGoBack, NavFacts) )
       => PoliciesAgree(GooglePolicyOf(ContentPolicyOutcome(url, NavFacts)),
                        GooglePolicyOf(NavigationStateOutcome(url, NavFacts)))]_vars

\* The navigation-state-changed hook met a Google search that lacks
\* safe=active, from a page that is neither approved nor Google and with
\* nothing authorized, and put the rewritten Google URL into the tab.
C34_Witness_RewrittenNotRedirected ==
  /\ lastNav.hook = "navigationStateChange"
  /\ lastNav.outcome = "enforceSafeSearch"
  /\ lastNav.referrer = <<"https://", "example", ".", "com", "/">>
  /\ ~lastNav.authorized
  /\ NavFacts[tabUrl].isGoogleSearchDomain

\* Both hooks redirect an unauthorized Google search that carries
\* safe=active.
C34_Witness_BothRedirect ==
  /\ lastNav.hook = "navigationStateChange"
  /\ lastNav.outcome = "redirectUnauthorized"
  /\ lastNav.referrer = <<"https://", "example", ".", "com", "/">>
  /\ tabUrl = SAFE_SEARCH_HOMEPAGE

\* A URL of the Google search domain that is not an auth URL.
IsNonAuthGoogleUrl(u) ==
  u \in NavUrls /\ NavFacts[u].isGoogleSearchDomain /\ ~NavFacts[u].isGoogleAuthUrl

\* The URLs a step records: the tab's new URL and the additions to the
\* session memory.
RecordedByStep ==
  (IF tabUrl' # tabUrl THEN {tabUrl'} ELSE {})
    \cup (authorizedGoogleUrls' \ authorizedGoogleUrls)

\* C35: a non-auth Google search-domain URL is stored as the tab's URL or
\* added to the session memory of authorized URLs only after the access
\* check (approved referrer, already on Google, or previously authorized)
\* has passed for the URL the hook was asked about; no other step of the
\* hooks, the safe-search rewrite included, records a Google URL before it.
C35_GoogleUrlRecordedOnlyAfterCheck ==
  [][\A url \in BothHooksUrls :
       ( /\ \/ handleShouldStartLoadWithRequest(url, NavFacts)
            \/ \E canGoBack \in BOOLEAN :
                 handleNavigationStateChange(url, canGoBack, NavFacts)
         /\ \E u \in RecordedByStep : IsNonAuthGoogleUrl(u) )
       => GoogleAccessAuthorized(url, NavFacts)]_vars

\* A Google search asked for from the approved search page was committed to
\* the tab and remembered.
C35_Witness_RecordedAfterCheck ==
  /\ lastNav.hook = "navigationStateChange"
  /\ lastNav.outcome = "committed"
  /\ NavFacts[lastNav.referrer].isReferrerFromSafeSearch
  /\ IsNonAuthGoogleUrl(lastNav.url)
  /\ tabUrl = lastNav.url
  /\ lastNav.url \in authorizedGoogleUrls

\* The rewritten Google URL is in the tab although the check had not passed
\* and nothing is remembered.
C35_Witness_RewriteRecordedUnchecked ==
  /\ lastNav.outcome = "enforceSafeSearch"
  /\ ~NavFacts[lastNav.referrer].isReferrerFromSafeSearch
  /\ ~NavFacts[lastNav.referrer].includesGoogleCom
  /\ ~lastNav.authorized
  /\ IsNonAuthGoogleUrl(tabUrl)
  /\ tabUrl = lastNav.redirect

(***************************************************************************)
(* SpecBlock: the blocklist store and its aggregate index                  *)
(***************************************************************************)

\* Filenames of the local blocklist directory and the domain lists a file
\* or an endpoint may hold after parsing.
Files == {"a.txt", "b.txt"}
FileContents == { {}, {"x.com"} }
FetchResults == { {}, {"z.com"}, {"w.com"} }

\* Ids of DEFAULT_BLOCKLIST_ENDPOINTS and CUSTOM_BLOCKLIST_ENDPOINTS.
Endpoints == {"e1", "e2"}

\* parseAllLocalBlocklists(): the bundled lists.
BundledDomains == {"bundled.com"}

\* The update interval (24 hours), scaled to the ticks of the model's clock.
UPDATE_INTERVAL_MS == 2
MaxClock == 3

\* The promise of fetchBlocklist(endpoint): not started, pending, or settled
\* with what happened (ok = FALSE: timeout, non-2xx status or network error).
NotFetched == [state |-> "none", ok |-> FALSE, domains |-> {}]
Pending == [state |-> "pending", ok |-> FALSE, domains |-> {}]
Settled(ok, domains) == [state |-> "settled", ok |-> ok, domains |-> domains]

\* What fetchBlocklist(endpoint) resolves to: the parsed domains, and the
\* empty list from its catch.
fetchBlocklist(outcome) == IF outcome.ok THEN outcome.domains ELSE {}

\* An aggregate in which fetched lists replace the local ones.
getExternalAndLocalDomainsExternalFirst ==
  IF UNION {externalBlocklistCache[e] : e \in Endpoints} # {}
  THEN UNION {externalBlocklistCache[e] : e \in Endpoints} \cup BundledDomains
  ELSE UNION {localBlocklistCache[f] : f \in Files} \cup BundledDomains

\* getExternalAndLocalDomains(): a Map entry that is absent is the empty list.
getExternalAndLocalDomains ==
  UNION {externalBlocklistCache[e] : e \in Endpoints}
    \cup UNION {localBlocklistCache[f] : f \in Files} \cup BundledDomains

\* getEnabledEndpoints()
getEnabledEndpoints == enabledEndpoints

\* The caches, the timestamp and the aggregate index, for comparisons.
StoreSnapshot ==
  [external |-> externalBlocklistCache, local |-> localBlocklistCache,
   index |-> allBlockedDomainsCache, timestamp |-> lastUpdateTimestamp,
   initialized |-> isInitialized]

\* The record kept of the caches at the start of a run; index is what a
\* lookup made at that moment reports.
RunRecord(kind) ==
  [kind |-> kind, completed |-> FALSE, external |-> externalBlocklistCache,
   local |-> localBlocklistCache, files |-> localFiles, enabled |-> enabledEndpoints,
   union |-> getExternalAndLocalDomains,
   index |-> IF allBlockedDomainsCache = NullCache THEN getExternalAndLocalDomains
             ELSE allBlockedDomainsCache]

\* invalidateAllBlockedDomainsCache() is the assignment of NullCache.
InitBlock ==
  /\ externalBlocklistCache = [e \in Endpoints |-> {}]
  /\ localBlocklistCache = [f \in Files |-> {}]
  /\ allBlockedDomainsCache = NullCache
  /\ isInitialized = FALSE
  /\ lastUpdateTimestamp = 0
  /\ localFiles \in {[f \in Files |-> {}], [f \in Files |-> IF f = "a.txt" THEN {"x.com"} ELSE {}]}
  /\ initTask = "idle"
  /\ now = 1
  /\ lastConsult = NoConsult
  /\ enabledEndpoints \in {{"e1"}, {"e1", "e2"}}
  /\ fetchResults = [e \in Endpoints |-> NotFetched]
  /\ runStart = NoRun
  /\ lastInitialize = NoInitialize
  /\ UrlAtRest /\ PermAtRest /\ LoadAtRest /\ NavAtRest /\ RestAtRest

OtherThanBlock == <<urlVars, permVars, loadVars, navVars, restVars>>

\* getAllBlockedDomainsSet(): rebuilt only when the cache is null.
getAllBlockedDomainsSet ==
  LET result == IF allBlockedDomainsCache = NullCache THEN getExternalAndLocalDomains
                ELSE allBlockedDomainsCache
  IN /\ allBlockedDomainsCache' = result
     /\ lastConsult' = [consulted |-> TRUE, result |-> result,
                        union |-> getExternalAndLocalDomains]
     /\ lastInitialize' = NoInitialize
     /\ UNCHANGED <<externalBlocklistCache, localBlocklistCache, isInitialized,
                    lastUpdateTimestamp, localFiles, initTask, now,
                    enabledEndpoints, fetchResults, runStart>>
     /\ UNCHANGED OtherThanBlock

\* The guard of initializeBlocklists.
IsUpToDateAlways == isInitialized
IsUpToDate == isInitialized /\ now - lastUpdateTimestamp < UPDATE_INTERVAL_MS

\* initializeBlocklists(), up to its first await; nothing happens when the
\* lists are initialized and younger than the update interval.
initializeBlocklists ==
  /\ initTask = "idle"
  /\ initTask' = IF IsUpToDate THEN "idle" ELSE "loadingLocal"
  /\ runStart' = IF IsUpToDate THEN runStart ELSE RunRecord("initialize")
  /\ lastInitialize' = [called |-> TRUE, initialized |-> isInitialized,
                        age |-> now - lastUpdateTimestamp, started |-> ~IsUpToDate,
                        before |-> StoreSnapshot]
  /\ lastConsult' = NoConsult
  /\ UNCHANGED <<externalBlocklistCache, localBlocklistCache, allBlockedDomainsCache,
                 isInitialized, lastUpdateTimestamp, localFiles, now,
                 enabledEndpoints, fetchResults>>
  /\ UNCHANGED OtherThanBlock

\* localBlocklistCache = await loadAllLocalBlocklists(), then the fan-out
\* of fetchBlocklist over getEnabledEndpoints().
InitLocalLoaded ==
  /\ initTask = "loadingLocal"
  /\ localBlocklistCache' = localFiles
  /\ fetchResults' = [e \in Endpoints |->
                        IF e \in getEnabledEndpoints THEN Pending ELSE NotFetched]
  /\ initTask' = "fetching"
  /\ lastConsult' = NoConsult
  /\ lastInitialize' = NoInitialize
  /\ UNCHANGED <<externalBlocklistCache, allBlockedDomainsCache, isInitialized,
                 lastUpdateTimestamp, localFiles, now, enabledEndpoints, runStart>>
  /\ UNCHANGED OtherThanBlock

\* One fetchBlocklist(endpoint) settles: with a response, or with a
\* timeout, a non-2xx status or a network error.
FetchSettles(e, ok, domains) ==
  /\ initTask = "fetching"
  /\ fetchResults[e].state = "pending"
  /\ fetchResults' = [fetchResults EXCEPT ![e] = Settled(ok, IF ok THEN domains ELSE {})]
  /\ lastConsult' = NoConsult
  /\ lastInitialize' = NoInitialize
  /\ UNCHANGED <<externalBlocklistCache, localBlocklistCache, allBlockedDomainsCache,
                 isInitialized, lastUpdateTimestamp, localFiles, initTask, now,
                 enabledEndpoints, runStart>>
  /\ UNCHANGED OtherThanBlock

\* A run whose first failed fetch rejects the whole batch (Promise.all).
UpdateCacheAllOrNothing(cache, results) ==
  IF \E e \in Endpoints : results[e].state = "settled" /\ ~results[e].ok THEN cache
  ELSE [e \in Endpoints |->
          IF results[e].state = "settled" /\ fetchBlocklist(results[e]) # {}
          THEN fetchBlocklist(results[e]) ELSE cache[e]]

\* The loop over the results of Promise.allSettled: every promise is
\* fulfilled, and an entry is set only for a non-empty list.
UpdateCache(cache, results) ==
  [e \in Endpoints |->
     IF results[e].state = "settled" /\ fetchBlocklist(results[e]) # {}
     THEN fetchBlocklist(results[e]) ELSE cache[e]]

\* Promise.allSettled(fetchPromises) has settled: the rest of
\* initializeBlocklists.
InitFetchesSettled ==
  /\ initTask = "fetching"
  /\ \A e \in Endpoints : fetchResults[e].state # "pending"
  /\ externalBlocklistCache' = UpdateCache(externalBlocklistCache, fetchResults)
  /\ lastUpdateTimestamp' = now
  /\ isInitialized' = TRUE
  /\ allBlockedDomainsCache' = NullCache
  /\ initTask' = "idle"
  /\ runStart' = [runStart EXCEPT !.completed = TRUE]
  /\ lastConsult' = NoConsult
  /\ lastInitialize' = NoInitialize
  /\ UNCHANGED <<localBlocklistCache, localFiles, now, enabledEndpoints, fetchResults>>
  /\ UNCHANGED OtherThanBlock

\* refreshBlocklists(), up to the first await of the initializeBlocklists()
\* it calls.
refreshBlocklists ==
  /\ initTask = "idle"
  /\ lastUpdateTimestamp' = 0
  /\ isInitialized' = FALSE
  /\ externalBlocklistCache' = [e \in Endpoints |-> {}]
  /\ localBlocklistCache' = [f \in Files |-> {}]
  /\ initTask' = "loadingLocal"
  /\ runStart' = RunRecord("refresh")
  /\ lastConsult' = NoConsult
  /\ lastInitialize' = NoInitialize
  /\ UNCHANGED <<allBlockedDomainsCache, localFiles, now, enabledEndpoints, fetchResults>>
  /\ UNCHANGED OtherThanBlock

\* saveBlocklistLocally(filename, content); domains is
\* parseBlocklistContent(content).
saveBlocklistLocally(filename, domains) ==
  /\ localFiles' = [localFiles EXCEPT ![filename] = domains]
  /\ localBlocklistCache' = [localBlocklistCache EXCEPT ![filename] = domains]
  /\ lastConsult' = NoConsult
  /\ lastInitialize' = NoInitialize
  /\ UNCHANGED <<externalBlocklistCache, allBlockedDomainsCache, isInitialized,
                 lastUpdateTimestamp, initTask, now, enabledEndpoints, fetchResults,
                 runStart>>
  /\ UNCHANGED OtherThanBlock

\* addBlocklistFromUrl(url, filename): saved only when the download holds
\* a domain.
addBlocklistFromUrl(filename, domains) ==
  /\ domains # {}
  /\ saveBlocklistLocally(filename, domains)

\* deleteLocalBlocklist(filename)
deleteLocalBlocklist(filename) ==
  /\ localFiles' = [localFiles EXCEPT ![filename] = {}]
  /\ localBlocklistCache' = [localBlocklistCache EXCEPT ![filename] = {}]
  /\ lastConsult' = NoConsult
  /\ lastInitialize' = NoInitialize
  /\ UNCHANGED <<externalBlocklistCache, allBlockedDomainsCache, isInitialized,
                 lastUpdateTimestamp, initTask, now, enabledEndpoints, fetchResults,
                 runStart>>
  /\ UNCHANGED OtherThanBlock

\* An endpoint of the configuration gets its enabled flag set.
EnableEndpoint(e) ==
  /\ e \notin enabledEndpoints
  /\ initTask = "idle"
  /\ enabledEndpoints' = enabledEndpoints \cup {e}
  /\ lastConsult' = NoConsult
  /\ lastInitialize' = NoInitialize
  /\ UNCHANGED <<externalBlocklistCache, localBlocklistCache, allBlockedDomainsCache,
                 isInitialized, lastUpdateTimestamp, localFiles, initTask, now,
                 fetchResults, runStart>>
  /\ UNCHANGED OtherThanBlock

\* Time passes.
Tick ==
  /\ now < MaxClock
  /\ now' = now + 1
  /\ lastConsult' = NoConsult
  /\ lastInitialize' = NoInitialize
  /\ UNCHANGED <<externalBlocklistCache, localBlocklistCache, allBlockedDomainsCache,
                 isInitialized, lastUpdateTimestamp, localFiles, initTask,
                 enabledEndpoints, fetchResults, runStart>>
  /\ UNCHANGED OtherThanBlock

BlockSave == \E f \in Files, d \in FileContents : saveBlocklistLocally(f, d)
BlockAddFromUrl == \E f \in Files, d \in FileContents : addBlocklistFromUrl(f, d)
BlockDelete == \E f \in Files : deleteLocalBlocklist(f)
BlockFetchSettles ==
  \E e \in Endpoints, ok \in BOOLEAN, d \in FetchResults : FetchSettles(e, ok, d)
BlockEnableEndpoint == \E e \in Endpoints : EnableEndpoint(e)

NextBlock ==
  \/ getAllBlockedDomainsSet
  \/ initializeBlocklists
  \/ InitLocalLoaded
  \/ BlockFetchSettles
  \/ InitFetchesSettled
  \/ refreshBlocklists
  \/ BlockSave
  \/ BlockAddFromUrl
  \/ BlockDelete
  \/ BlockEnableEndpoint
  \/ Tick

SpecBlock == InitBlock /\ [][NextBlock]_vars

\* C10: whenever the aggregate index is consulted, the set returned by
\* getAllBlockedDomainsSet is the union of the external, local and bundled
\* caches as they are at that moment.
C10_ConsultReturnsCurrentUnion ==
  lastConsult.consulted => lastConsult.result = lastConsult.union

\* After a completed initializeBlocklists the consulted set is the union:
\* the invalidation at its end is honoured.
C10_Witness_ConsultAfterInitialize ==
  /\ lastConsult.consulted
  /\ isInitialized
  /\ "z.com" \in lastConsult.result
  /\ "x.com" \in lastConsult.result
  /\ lastConsult.result = lastConsult.union

\* A fetch of the run that failed, and one that brought domains.
FetchFailed(e) == fetchResults[e].state = "settled" /\ ~fetchResults[e].ok
FetchBrought(e) ==
  fetchResults[e].state = "settled" /\ fetchResults[e].ok /\ fetchResults[e].domains # {}

\* C11: the step that ends a run of initializeBlocklists stores the domains
\* of every endpoint whose fetch brought some, whatever happened to the
\* other fetches, marks the store initialized, sets the timestamp and
\* invalidates the aggregate index.
C11_FailedFetchDoesNotAbortRun ==
  [][(~runStart.completed /\ runStart'.completed) =>
       /\ \A e \in Endpoints :
            FetchBrought(e) => externalBlocklistCache'[e] = fetchResults[e].domains
       /\ isInitialized'
       /\ lastUpdateTimestamp' = now
       /\ allBlockedDomainsCache' = NullCache
       /\ initTask' = "idle"]_vars

\* A run ended with one endpoint failed and the other endpoint's domains
\* stored.
C11_Witness_OneFailedOtherStored ==
  /\ runStart.completed
  /\ initTask = "idle"
  /\ FetchFailed("e1")
  /\ FetchBrought("e2")
  /\ externalBlocklistCache["e2"] = fetchResults["e2"].domains
  /\ isInitialized
  /\ lastUpdateTimestamp = now
  /\ allBlockedDomainsCache = NullCache

\* C12: after a run (initialize or refresh) in which an endpoint's fetch
\* failed, the domains cached for that endpoint are those cached before the
\* run began.
C12_FailedFetchKeepsPriorCache ==
  (runStart.completed /\ initTask = "idle") =>
    \A e \in Endpoints : FetchFailed(e) => externalBlocklistCache[e] = runStart.external[e]

\* A stale initializeBlocklists run in which the fetch failed kept the
\* endpoint's earlier domains.
C12_Witness_InitializeKeepsPriorCache ==
  /\ runStart.completed
  /\ runStart.kind = "initialize"
  /\ initTask = "idle"
  /\ FetchFailed("e1")
  /\ runStart.external["e1"] # {}
  /\ externalBlocklistCache["e1"] = runStart.external["e1"]

\* The last run fetched endpoint e, which had nothing cached, with success,
\* while every other source was held fixed: the other endpoints were not
\* fetched or brought what was cached for them, and the local files were
\* those of the local cache and did not change.
NewSourceFetched(e) ==
  /\ runStart.completed /\ initTask = "idle"
  /\ runStart.external[e] = {}
  /\ FetchBrought(e)
  /\ \A o \in Endpoints \ {e} :
        \/ fetchResults[o].state = "none" /\ externalBlocklistCache[o] = runStart.external[o]
        \/ FetchBrought(o) /\ fetchResults[o].domains = runStart.external[o]
  /\ runStart.local = runStart.files
  /\ localFiles = runStart.files
  /\ localBlocklistCache = localFiles

\* C13: with every other source held fixed, a run that fetched one more
\* endpoint with success leaves every domain of the earlier aggregate in the
\* aggregate.
C13_NewSourceOnlyGrowsAggregate ==
  \A e \in Endpoints : NewSourceFetched(e) => runStart.union \subseteq getExternalAndLocalDomains

\* A second endpoint was enabled and fetched; the aggregate kept the local
\* and the first endpoint's domains and gained the new ones.
C13_Witness_AggregateGrew ==
  /\ NewSourceFetched("e2")
  /\ "x.com" \in runStart.union
  /\ runStart.external["e1"] # {}
  /\ runStart.union # getExternalAndLocalDomains
  /\ runStart.union \subseteq getExternalAndLocalDomains

\* C14: a call of initializeBlocklists on an initialized store younger than
\* the update interval loads no file, starts no fetch and leaves the caches,
\* the timestamp and the aggregate index as they were; on an initialized
\* store that has reached the interval the call starts the full run.
C14_InitializeSkipsWhileFresh ==
  lastInitialize.called =>
    /\ (lastInitialize.initialized /\ lastInitialize.age < UPDATE_INTERVAL_MS) =>
          /\ ~lastInitialize.started
          /\ initTask = "idle"
          /\ StoreSnapshot = lastInitialize.before
          /\ \A e \in Endpoints : fetchResults[e].state # "pending"
    /\ (lastInitialize.initialized /\ lastInitialize.age >= UPDATE_INTERVAL_MS) =>
          /\ lastInitialize.started
          /\ initTask = "loadingLocal"

\* initializeBlocklists was called one tick after a completed run that had
\* stored domains, and did nothing.
C14_Witness_FreshCallSkipped ==
  /\ lastInitialize.called
  /\ lastInitialize.initialized
  /\ lastInitialize.age = 1
  /\ ~lastInitialize.started
  /\ \E e \in Endpoints : externalBlocklistCache[e] # {}
  /\ initTask = "idle"

\* initializeBlocklists was called when the interval had elapsed, and a new
\* run began.
C14_Witness_StaleCallRuns ==
  /\ lastInitialize.called
  /\ lastInitialize.initialized
  /\ lastInitialize.age >= UPDATE_INTERVAL_MS
  /\ lastInitialize.started

(***************************************************************************)
(* SpecParse: parseBlocklistContent over lists of lines, with and without  *)
(* a format hint                                                           *)
(***************************************************************************)

\* Tokens made of the characters of [a-zA-Z0-9] only, two or more of them.
DomainLabels == {"www", "WWW", "Example", "example", "com", "localhost"}
\* Tokens made of the characters of [-a-zA-Z0-9._].
DomainToks == DomainLabels \cup {"."}

HostsAddresses == {"0.0.0.0", "127.0.0.1"}

RECURSIVE TrimStart(_)
TrimStart(line) ==
  IF line # <<>> /\ Head(line) = " " THEN TrimStart(Tail(line)) ELSE line

RECURSIVE TrimEnd(_)
TrimEnd(line) ==
  IF line # <<>> /\ line[Len(line)] = " " THEN TrimEnd(SubSeq(line, 1, Len(line) - 1))
  ELSE line

\* String.prototype.trim
Trim(line) == TrimEnd(TrimStart(line))

\* The longest prefix of s made of DomainToks.
RECURSIVE DomainPrefix(_)
DomainPrefix(s) ==
  IF s # <<>> /\ Head(s) \in DomainToks THEN <<Head(s)>> \o DomainPrefix(Tail(s)) ELSE <<>>

\* [a-zA-Z0-9][-a-zA-Z0-9._]*[a-zA-Z0-9]
MatchesDomainChars(d) ==
  /\ d # <<>>
  /\ \A i \in 1..Len(d) : d[i] \in DomainToks
  /\ d[1] \in DomainLabels /\ d[Len(d)] \in DomainLabels

\* [a-zA-Z0-9][-a-zA-Z0-9._]*\.[a-zA-Z]{2,}
MatchesDomainPattern(d) ==
  /\ Len(d) >= 3
  /\ \A i \in 1..Len(d) : d[i] \in DomainToks
  /\ d[1] \in DomainLabels /\ d[Len(d) - 1] = "." /\ d[Len(d)] \in DomainLabels

\* The Set of a parser, in insertion order.
SetAdd(domains, d) ==
  IF \E i \in 1..Len(domains) : domains[i] = d THEN domains ELSE Append(domains, d)

\* One line of parseEasyListFormat: the domains it adds (none or one).
EasyListLine(rawLine) ==
  LET line == Trim(rawLine)
      rest == IF line # <<>> THEN Tail(line) ELSE <<>>
      run == DomainPrefix(rest)
      domain == ToLower(run)
      domainBlockMatch ==
        /\ MatchesDomainChars(run)
        /\ Len(rest) > Len(run) /\ rest[Len(run) + 1] \in {"^", "/", "$"}
      simpleDomainMatch == MatchesDomainPattern(rest)
      domainWithOptionsMatch ==
        /\ MatchesDomainChars(run)
        /\ Len(rest) > Len(run) /\ rest[Len(run) + 1] = "$"
  IN IF line = <<>> THEN {}
     ELSE IF line[1] \in {"!", "[Adblock"} THEN {}
     ELSE IF line[1] = "@@" THEN {}
     ELSE IF \E i \in 1..Len(line) : line[i] \in {"##", "#@#", "#?#"} THEN {}
     ELSE IF line[1] = "/" /\ line[Len(line)] = "/" THEN {}
     ELSE IF line[1] # "||" THEN {}
     ELSE IF domainBlockMatch
          THEN (IF Includes(domain, <<".">>) THEN {domain} ELSE {})
     ELSE IF simpleDomainMatch THEN {ToLower(rest)}
     ELSE IF domainWithOptionsMatch
          THEN (IF Includes(domain, <<".">>) THEN {domain} ELSE {})
     ELSE {}

\* One line of parseDomainsFormat.
DomainsLine(rawLine) ==
  LET line == Trim(rawLine)
  IN IF line = <<>> \/ line[1] \in {"#", "!"} THEN {}
     ELSE IF line[1] \in {"||", "@@"} \/ \E i \in 1..Len(line) : line[i] = "##" THEN {}
     ELSE IF MatchesDomainPattern(line) THEN {ToLower(line)}
     ELSE {}

\* One line of parseHostsFormat.
HostsLine(rawLine) ==
  LET line == Trim(rawLine)
      afterAddress == IF line # <<>> THEN Tail(line) ELSE <<>>
      name == TrimStart(afterAddress)
      domain == ToLower(name)
  IN IF line = <<>> \/ line[1] = "#" THEN {}
     ELSE IF /\ line[1] \in HostsAddresses
             /\ afterAddress # <<>> /\ afterAddress[1] = " "
             /\ MatchesDomainChars(name)
          THEN (IF /\ domain # <<"localhost">>
                   /\ domain # <<"localhost", ".", "localdomain">>
                   /\ Includes(domain, <<".">>)
                THEN {domain} ELSE {})
     ELSE {}

LineDomains(format, rawLine) ==
  CASE format = "easylist" -> EasyListLine(rawLine)
    [] format = "hosts" -> HostsLine(rawLine)
    [] format = "domains" -> DomainsLine(rawLine)

\* The loop over content.split('\n') of a parser, then Array.from(domains).
RECURSIVE ParseLines(_, _, _)
ParseLines(format, lines, domains) ==
  IF lines = <<>> THEN domains
  ELSE LET found == LineDomains(format, Head(lines))
       IN ParseLines(format, Tail(lines),
                     IF found = {} THEN domains
                     ELSE SetAdd(domains, CHOOSE d \in found : TRUE))

parseEasyListFormat(content) == ParseLines("easylist", content, <<>>)
parseAdGuardFormat(content) == parseEasyListFormat(content)
parseDomainsFormat(content) == ParseLines("domains", content, <<>>)
parseHostsFormat(content) == ParseLines("hosts", content, <<>>)

\* The auto-detection reads the first 20 lines.
DETECT_LINES == 20

parseBlocklistContent(content, formatHint) ==
  LET firstLines == SubSeq(content, 1, IF Len(content) < DETECT_LINES THEN Len(content)
                                        ELSE DETECT_LINES)
      has(tok) == \E i \in 1..Len(firstLines) : \E j \in 1..Len(firstLines[i]) :
                    firstLines[i][j] = tok
  IN CASE formatHint = "easylist" -> parseEasyListFormat(content)
       [] formatHint = "adguard" -> parseAdGuardFormat(content)
       [] formatHint = "hosts" -> parseHostsFormat(content)
       [] formatHint = "domains" -> parseDomainsFormat(content)
       [] OTHER ->
            IF has("[Adblock")
               \/ \E i \in 1..Len(firstLines) : Includes(firstLines[i], <<"!", " ", "Title:">>)
            THEN parseEasyListFormat(content)
            ELSE IF \E i \in 1..Len(firstLines) :
                      /\ Len(firstLines[i]) >= 2
                      /\ firstLines[i][1] \in HostsAddresses /\ firstLines[i][2] = " "
            THEN parseHostsFormat(content)
            ELSE IF has("||") /\ has("^") THEN parseEasyListFormat(content)
            ELSE parseDomainsFormat(content)

FormatHints == {"easylist", "adguard", "hosts", "domains", "none"}

ListLines ==
  { <<"||", "www", ".", "Example", ".", "com", "^">>,
    <<"||", "example", ".", "com">>,
    <<"||", "example", ".", "com", "$", "third-party">>,
    <<"@@", "||", "example", ".", "com", "^">>,
    <<"0.0.0.0", " ", "WWW", ".", "example", ".", "com">>,
    <<"0.0.0.0", " ", " ", "example", ".", "com">>,
    <<"127.0.0.1", " ", "localhost">>,
    <<" ", "Example", ".", "com", " ">>,
    <<"www", ".", "example", ".", "com">>,
    <<"example", ".", "com">>,
    <<"!", " ", "Title:", " ", "list">>,
    <<"example", ".", "com", "##", ".", "ad">> }

MaxLines == 2

RECURSIVE ContentsUpTo(_)
ContentsUpTo(n) ==
  IF n = 0 THEN {<<>>}
  ELSE ContentsUpTo(n - 1) \cup
       { Append(c, l) : c \in {c0 \in ContentsUpTo(n - 1) : Len(c0) = n - 1}, l \in ListLines }

InitParse ==
  /\ parseContent \in ContentsUpTo(MaxLines)
  /\ parseHint \in FormatHints
  /\ parseResult = NoParse
  /\ UrlAtRest /\ PermAtRest /\ LoadAtRest /\ NavAtRest /\ BlockAtRest /\ PageAtRest
  /\ ConfigAtRest /\ AddAtRest /\ LateAtRest

\* A caller (fetchBlocklist, loadLocalBlocklistFile, saveBlocklistLocally,
\* addBlocklistFromUrl) parses a downloaded or stored list.
ParseBlocklistContentCall ==
  /\ ~parseResult.done
  /\ parseResult' = [done |-> TRUE, domains |-> parseBlocklistContent(parseContent, parseHint)]
  /\ UNCHANGED <<parseContent, parseHint>>
  /\ UNCHANGED <<urlVars, permVars, loadVars, navVars, blockVars, pageVars, configVars,
                 addVars, lateVars>>

NextParse == ParseBlocklistContentCall

SpecParse == InitParse /\ [][NextParse]_vars

\* Every returned domain is lowercase and occurs once in the result.
ParsedLowercaseOnce ==
  \A i \in 1..Len(parseResult.domains) :
    /\ parseResult.domains[i] = ToLower(parseResult.domains[i])
    /\ \A j \in 1..Len(parseResult.domains) :
         parseResult.domains[j] = parseResult.domains[i] => j = i

\* C27: every domain parseBlocklistContent returns, for any content and any
\* format hint, is lowercase, occurs once in the result, and does not start
\* with the www. label.
C27_ParsedDomainsNormalised ==
  /\ ParsedLowercaseOnce
  /\ \A i \in 1..Len(parseResult.domains) :
       ~StartsWith(parseResult.domains[i], <<"www", ".">>)

\* Two lines that spell one name in different case give one lowercase entry.
C27_Witness_LowercasedAndMerged ==
  /\ parseResult.done
  /\ parseHint = "domains"
  /\ parseContent = << <<" ", "Example", ".", "com", " ">>, <<"example", ".", "com">> >>
  /\ parseResult.domains = << <<"example", ".", "com">> >>

C27_Witness_WwwEntryParsed ==
  /\ parseResult.done
  /\ parseHint = "hosts"
  /\ \E i \in 1..Len(parseContent) : Includes(parseContent[i], <<"WWW", ".">>)
  /\ Len(parseResult.domains) > 0

(***************************************************************************)
(* SpecConfig: the configuration module evaluated against an environment   *)
(***************************************************************************)

EnvValues == {"true", "false", "unset"}

InitConfig ==
  /\ env \in [FlagNames -> EnvValues]
  /\ APP_CONFIG = AppConfigNotLoaded
  /\ configLoaded = FALSE
  /\ UrlAtRest /\ PermAtRest /\ LoadAtRest /\ NavAtRest /\ BlockAtRest /\ PageAtRest
  /\ ParseAtRest /\ AddAtRest /\ LateAtRest

\* The first import of the configuration module evaluates APP_CONFIG.
ImportAppConfig ==
  /\ ~configLoaded
  /\ configLoaded' = TRUE
  /\ APP_CONFIG' = AppConfig(env)
  /\ UNCHANGED env
  /\ UNCHANGED <<urlVars, permVars, loadVars, navVars, blockVars, pageVars, parseVars,
                 addVars, lateVars>>

NextConfig == ImportAppConfig

SpecConfig == InitConfig /\ [][NextConfig]_vars

\* C28: once the configuration is loaded, each boolean flag is on exactly
\* when its environment variable is 'true'; Google Images blocking and
\* Google access control are on for 'true' and off for 'false'.
C28_FlagOnExactlyWhenEnvTrue ==
  configLoaded =>
    \A n \in FlagNames : APP_CONFIG[n] <=> env[n] = "true"

C28_Witness_MediaFlagFollowsEnv ==
  /\ configLoaded
  /\ env["ENABLE_MEDIA_BLOCKING"] = "true" /\ isMediaBlockingEnabled
  /\ env["ENABLE_YOUTUBE_ALWAYS_RESTRICTED"] = "false" /\ ~isYouTubeAlwaysRestrictedEnabled

C28_Witness_ReadmeEnvLoaded ==
  /\ configLoaded
  /\ env = ReadmeEnv
  /\ ~isGoogleImagesBlockingEnabled /\ ~isGoogleAccessControlEnabled

\* A refreshBlocklists() call is in flight.
RefreshInFlight == runStart.kind = "refresh" /\ ~runStart.completed

\* The domains the sources provide while the refresh runs: the bundled
\* lists, the files of the local directory, and what the fetches of this
\* run have brought.
StillProvided ==
  BundledDomains
    \cup UNION {localFiles[f] : f \in Files}
    \cup UNION {IF initTask = "fetching" /\ FetchBrought(e) THEN fetchResults[e].domains
                ELSE {} : e \in Endpoints}

\* C38: while a refreshBlocklists call is in flight, every domain that was
\* in the aggregate index before the refresh and is still provided by its
\* source is reported blocked by every lookup: the aggregate does not lose
\* it between the clearing of the caches and the end of the refresh.
C38_RefreshKeepsProvidedDomains ==
  (lastConsult.consulted /\ RefreshInFlight) =>
    (runStart.index \cap StillProvided) \subseteq lastConsult.result

\* A lookup made during a refresh whose index had been built before the
\* refresh: the file's domain is still reported.
C38_Witness_CachedIndexKept ==
  /\ lastConsult.consulted
  /\ RefreshInFlight
  /\ initTask = "loadingLocal"
  /\ "x.com" \in runStart.index
  /\ "x.com" \in UNION {localFiles[f] : f \in Files}
  /\ "x.com" \in lastConsult.result

\* A lookup made during a refresh, before the local lists were read again.
C38_Witness_LookupDuringRefresh ==
  /\ lastConsult.consulted
  /\ RefreshInFlight
  /\ initTask = "loadingLocal"
  /\ "x.com" \in runStart.index
  /\ localBlocklistCache = [f \in Files |-> {}]

(***************************************************************************)
(* SpecNavConfig: the navigation hooks of an app built with either value   *)
(* of the Google access control and Google Images variables                *)
(***************************************************************************)

BuildEnvs ==
  { [ReadmeEnv EXCEPT !["ENABLE_GOOGLE_ACCESS_CONTROL"] = a,
                      !["ENABLE_GOOGLE_IMAGES_BLOCKING"] = i] : a, i \in {"true", "false"} }

InitNavConfig ==
  /\ InitNavTab
  /\ env \in BuildEnvs
  /\ APP_CONFIG = AppConfig(env)
  /\ configLoaded = TRUE
  /\ imagesBlocking = AppConfig(env)["ENABLE_GOOGLE_IMAGES_BLOCKING"]

SpecNavConfig == InitNavConfig /\ [][NextNav]_vars

AccessControlRedirects == {"redirectHomepage", "redirectUnauthorized"}

\* C29: when isGoogleAccessControlEnabled() is false, a hook that decides a
\* navigation to a Google search-domain URL does not redirect it to the
\* approved search homepage, neither as a homepage visit nor as an
\* unauthorized one.
C29_DisabledFlagNoGoogleRedirect ==
  ( /\ lastNav # NoNav
    /\ ~isGoogleAccessControlEnabled
    /\ isGoogleSearchDomain(lastNav.url) )
    => lastNav.outcome \notin AccessControlRedirects

C29_Witness_DisabledFlagGoogleReached ==
  /\ lastNav # NoNav
  /\ ~isGoogleAccessControlEnabled
  /\ isGoogleSearchDomain(lastNav.url)
  /\ lastNav.outcome \in {"allowed", "committed"}

C29_Witness_EnabledFlagRedirects ==
  /\ lastNav # NoNav
  /\ isGoogleAccessControlEnabled
  /\ isGoogleSearchDomain(lastNav.url)
  /\ lastNav.outcome = "redirectUnauthorized"

(***************************************************************************)
(* SpecAdd: addBlocklistFromUrl with its return value, among deletions and *)
(* consultations of the store                                              *)
(***************************************************************************)

\* What fetch(url) and response.text() did: the request failed, or it was
\* answered with a status and the body could or could not be read.
AddResponses ==
  { [answered |-> FALSE, status |-> 0, textOk |-> FALSE] } \cup
  { [answered |-> TRUE, status |-> st, textOk |-> t] : st \in {200, 404, 500}, t \in BOOLEAN }

\* response.ok
ResponseOk(response) == response.status \in 200..299

AddFailure(error) == [success |-> FALSE, domainCount |-> 0, error |-> error, threw |-> FALSE]
AddSuccess(count) == [success |-> TRUE, domainCount |-> count, error |-> "", threw |-> FALSE]

\* The run of addBlocklistFromUrl with the zero-domain test left out.
addBlocklistFromUrlRunNoEmptyTest(response, domains, writeOk) ==
  IF ~response.answered
  THEN [saved |-> FALSE, result |-> AddFailure("TypeError: Network request failed")]
  ELSE IF ~ResponseOk(response)
  THEN [saved |-> FALSE,
        result |-> AddFailure(IF response.status = 404 THEN "HTTP 404" ELSE "HTTP 500")]
  ELSE IF ~response.textOk
  THEN [saved |-> FALSE, result |-> AddFailure("TypeError: Network request failed")]
  ELSE IF ~writeOk
  THEN [saved |-> FALSE, result |-> AddFailure("Failed to save locally")]
  ELSE [saved |-> TRUE, result |-> AddSuccess(Cardinality(domains))]

\* The run of addBlocklistFromUrl: whether saveBlocklistLocally was reached
\* and returned true, and the value returned.  domains is
\* parseBlocklistContent(content, format); writeOk: the directory is
\* available and writeAsStringAsync resolves.  A rejected fetch or text()
\* lands in the catch, which returns String(error).
addBlocklistFromUrlRun(response, domains, writeOk) ==
  IF ~response.answered
  THEN [saved |-> FALSE, result |-> AddFailure("TypeError: Network request failed")]
  ELSE IF ~ResponseOk(response)
  THEN [saved |-> FALSE,
        result |-> AddFailure(IF response.status = 404 THEN "HTTP 404" ELSE "HTTP 500")]
  ELSE IF ~response.textOk
  THEN [saved |-> FALSE, result |-> AddFailure("TypeError: Network request failed")]
  ELSE IF domains = {}
  THEN [saved |-> FALSE, result |-> AddFailure("No valid domains found")]
  ELSE IF ~writeOk
  THEN [saved |-> FALSE, result |-> AddFailure("Failed to save locally")]
  ELSE [saved |-> TRUE, result |-> AddSuccess(Cardinality(domains))]

\* addBlocklistFromUrl(url, filename, format).  hinted is the content parsed
\* with the format hint, stored the content parsed without it (what
\* saveBlocklistLocally puts in the cache); without a hint they are equal.
addBlocklistFromUrlCall(filename, response, hasFormat, hinted, stored, writeOk) ==
  LET run == addBlocklistFromUrlRun(response, hinted, writeOk)
  IN /\ hasFormat \/ hinted = stored
     /\ lastAdd' = [called |-> TRUE, filename |-> filename, response |-> response,
                    parsed |-> IF response.answered /\ response.textOk THEN hinted ELSE {},
                    saved |-> run.saved, result |-> run.result]
     /\ IF run.saved
        THEN /\ localFiles' = [localFiles EXCEPT ![filename] = stored]
             /\ localBlocklistCache' = [localBlocklistCache EXCEPT ![filename] = stored]
        ELSE UNCHANGED <<localFiles, localBlocklistCache>>
     /\ lastConsult' = NoConsult
     /\ lastInitialize' = NoInitialize
     /\ UNCHANGED <<externalBlocklistCache, allBlockedDomainsCache, isInitialized,
                    lastUpdateTimestamp, initTask, now, enabledEndpoints, fetchResults,
                    runStart>>
     /\ UNCHANGED <<urlVars, permVars, loadVars, navVars, pageVars, parseVars, configVars,
                    lateVars>>

AddFromUrl ==
  \E f \in Files, response \in AddResponses, hasFormat \in BOOLEAN,
     hinted \in FileContents, stored \in FileContents, writeOk \in BOOLEAN :
    addBlocklistFromUrlCall(f, response, hasFormat, hinted, stored, writeOk)

NextAdd == AddFromUrl \/ BlockDelete \/ getAllBlockedDomainsSet

SpecAdd == InitBlock /\ [][NextAdd]_vars

\* C26: addBlocklistFromUrl returns success = true exactly when the fetch
\* answered 2xx, the content parsed to at least one domain and the list was
\* saved locally; otherwise it returns success = false, domainCount = 0 and
\* a non-empty error; it never throws.
C26_SuccessExactlyWhenFetchedParsedSaved ==
  lastAdd.called =>
    /\ lastAdd.result.success <=>
         ( /\ lastAdd.response.answered /\ lastAdd.response.status \in 200..299
           /\ lastAdd.parsed # {}
           /\ lastAdd.saved )
    /\ ~lastAdd.result.success =>
         (lastAdd.result.domainCount = 0 /\ lastAdd.result.error # "")
    /\ ~lastAdd.result.threw

C26_Witness_AddSucceeded ==
  /\ lastAdd.called /\ lastAdd.result.success
  /\ lastAdd.result.domainCount = 1
  /\ localFiles[lastAdd.filename] # {}

C26_Witness_SaveFailed ==
  /\ lastAdd.called /\ ~lastAdd.result.success
  /\ lastAdd.response.status = 200 /\ lastAdd.parsed # {}
  /\ lastAdd.result.error = "Failed to save locally"

C26_Witness_NoDomains ==
  /\ lastAdd.called
  /\ lastAdd.response.status = 200 /\ lastAdd.response.textOk /\ lastAdd.parsed = {}
  /\ lastAdd.result.error = "No valid domains found"

(***************************************************************************)
(* SpecShorts: navigations of a YouTube tab through the will-navigate      *)
(* hook, the commit of the load and the injected page script               *)
(***************************************************************************)

\* isYouTubeUrl(url)
isYouTubeUrl(url) ==
  LET u == ParseLoose(url)
  IN /\ u.ok
     /\ \/ Includes(u.host, <<"youtube", ".", "com">>)
        \/ Includes(u.host, <<"youtu", ".", "be">>)

\* The four prefixes of a channel page's path.
IsChannelPath(path) ==
  \/ StartsWith(path, <<"/", "channel", "/">>)
  \/ StartsWith(path, <<"/", "@">>)
  \/ StartsWith(path, <<"/", "c", "/">>)
  \/ StartsWith(path, <<"/", "user", "/">>)

\* isYouTubeShortsFromChannel(url, referrer): referrer is <<>> when null.
isYouTubeShortsFromChannel(url, referrer) ==
  /\ referrer # <<>>
  /\ ParseUrl(referrer).ok
  /\ IsChannelPath(ToLower(ParseUrl(referrer).path))

\* isBlockedYouTubeShortsUrl(url, referrer)
isBlockedYouTubeShortsUrl(url, referrer) ==
  LET u == ParseLoose(url)
  IN /\ u.ok
     /\ Includes(u.host, <<"youtube", ".", "com">>)
     /\ StartsWith(ToLower(u.path), <<"/", "shorts">>)
     /\ ~isYouTubeShortsFromChannel(url, referrer)

\* isShortsPage() and isChannelPage() of the injected script read the
\* pathname of the page the script runs in.
isShortsPage(location) == StartsWith(ToLower(ParseUrl(location).path), <<"/", "shorts">>)
isChannelPage(location) == IsChannelPath(ToLower(ParseUrl(location).path))

\* blockShortsPage(): TRUE when it assigns window.location.href = '/'.
blockShortsPage(location) == isShortsPage(location) /\ ~isChannelPage(location)

YtHome == <<"https://", "m", ".", "youtube", ".", "com", "/">>

\* Pages of a YouTube session, and one page of another site.  None is in
\* the Google search domain, so the Google access check of the hooks does
\* not apply to them.
YtCorpus ==
  { YtHome,
    <<"https://", "m", ".", "youtube", ".", "com", "/", "@", "user">>,
    <<"https://", "m", ".", "youtube", ".", "com", "/", "channel", "/", "x">>,
    <<"https://", "m", ".", "youtube", ".", "com", "/", "watch">>,
    <<"https://", "m", ".", "youtube", ".", "com", "/", "shorts", "/", "abc">>,
    <<"https://", "example", ".", "com", "/">> }

ShortsFacts == [u \in YtCorpus |-> UrlFacts(u)]

\* The decision of handleShouldStartLoadWithRequest with the Shorts rule in
\* its place, between the Google section rule and processUrl.
YouTubeShouldStartLoadOutcome(url, facts) ==
  LET other == ContentPolicyOutcome(url, facts)
  IN IF other \notin {"blockedAlert", "allowed"} THEN other
     ELSE IF isBlockedYouTubeShortsUrl(url, youtubeReferrerRef) THEN "shortsAlert"
     ELSE other

\* handleShouldStartLoadWithRequest for a request of the tab's page; a
\* request the script's location.href assignment causes asks for '/'.
YouTubeShouldStartLoad(url, facts) ==
  LET outcome == YouTubeShouldStartLoadOutcome(url, facts)
      reachedReferrerUpdate == outcome \in {"blockedAlert", "allowed"}
  IN /\ ytPendingLoad = <<>>
     /\ ytScript # "due"
     /\ ytScript = "redirecting" => url = YtHome
     /\ youtubeReferrerRef' = IF reachedReferrerUpdate /\ isYouTubeUrl(url) THEN tabUrl
                              ELSE youtubeReferrerRef
     /\ lastShorts' = [stage |-> "hook", from |-> tabUrl, url |-> url, outcome |-> outcome]
     /\ lastNav' = NavRecord("shouldStartLoad", url, outcome, <<>>, FALSE, facts)
     /\ ytPendingLoad' = IF outcome = "allowed" THEN url ELSE <<>>
     /\ ytNavigatedFrom' = IF outcome = "allowed" THEN tabUrl ELSE ytNavigatedFrom
     /\ ytScript' = "idle"
     /\ UNCHANGED <<tabUrl, previousUrlRef, authorizedGoogleUrls>>

InitShorts ==
  /\ tabUrl \in {YtHome, <<"https://", "example", ".", "com", "/">>}
  /\ previousUrlRef = <<>>
  /\ authorizedGoogleUrls = {}
  /\ lastNav = NoNav
  /\ inputUrl = <<>>
  /\ blockedIndex = {}
  /\ imagesBlocking = FALSE
  /\ urlResult = NoResult
  /\ ShortsAtRest
  /\ PermAtRest /\ LoadAtRest /\ BlockAtRest /\ PageAtRest /\ ParseAtRest /\ ConfigAtRest
  /\ AddAtRest /\ AfterShortsAtRest

ShortsShouldStartLoad ==
  \E url \in YtCorpus :
    /\ YouTubeShouldStartLoad(url, ShortsFacts)
    /\ UNCHANGED <<urlVars, permVars, loadVars, blockVars, pageVars, parseVars, configVars,
                   addVars, afterShortsVars>>

\* The load the hook allowed commits: handleNavigationStateChange stores the
\* URL, and the YouTube script is injected into a YouTube page.
ShortsCommit ==
  /\ ytPendingLoad # <<>>
  /\ \E canGoBack \in BOOLEAN :
       handleNavigationStateChange(ytPendingLoad, canGoBack, ShortsFacts)
  /\ ytPendingLoad' = <<>>
  /\ ytScript' = IF isYouTubeUrl(ytPendingLoad) THEN "due" ELSE "idle"
  /\ UNCHANGED <<youtubeReferrerRef, ytNavigatedFrom, lastShorts>>
  /\ UNCHANGED <<urlVars, permVars, loadVars, blockVars, pageVars, parseVars, configVars,
                 addVars, afterShortsVars>>

\* runAll() of the injected script, on DOMContentLoaded.
PageScriptRunAll ==
  /\ ytScript = "due"
  /\ lastShorts' = [stage |-> "script", from |-> ytNavigatedFrom, url |-> tabUrl,
                    outcome |-> IF blockShortsPage(tabUrl) THEN "redirected" ELSE "stays"]
  /\ ytScript' = IF blockShortsPage(tabUrl) THEN "redirecting" ELSE "idle"
  /\ UNCHANGED <<youtubeReferrerRef, ytNavigatedFrom, ytPendingLoad>>
  /\ UNCHANGED <<urlVars, permVars, loadVars, navVars, blockVars, pageVars, parseVars,
                 configVars, addVars, afterShortsVars>>

NextShorts == ShortsShouldStartLoad \/ ShortsCommit \/ PageScriptRunAll

SpecShorts == InitShorts /\ [][NextShorts]_vars

\* The last decision was about a navigation to a YouTube /shorts URL.
ShortsDecided ==
  /\ lastShorts.stage # "none"
  /\ isYouTubeUrl(lastShorts.url)
  /\ isShortsPage(lastShorts.url)

\* C31: a navigation to a YouTube /shorts URL is let through (by the hook:
\* allowed; by the page script: the page stays) exactly when the page it was
\* navigated from is a YouTube channel page.
C31_ShortsOnlyFromChannelPage ==
  ShortsDecided =>
    ( lastShorts.outcome \in {"allowed", "stays"}
        <=> (isYouTubeUrl(lastShorts.from) /\ isChannelPage(lastShorts.from)) )

\* The will-navigate half of C31 alone.
ShortsHookFollowsFromPage ==
  (ShortsDecided /\ lastShorts.stage = "hook") =>
    ( lastShorts.outcome = "allowed"
        <=> (isYouTubeUrl(lastShorts.from) /\ isChannelPage(lastShorts.from)) )

\* The page-script half of C31 alone.
ShortsScriptFollowsFromPage ==
  (ShortsDecided /\ lastShorts.stage = "script") =>
    ( lastShorts.outcome = "stays"
        <=> (isYouTubeUrl(lastShorts.from) /\ isChannelPage(lastShorts.from)) )

C31_Witness_ShortsRefusedFromHome ==
  /\ lastShorts.stage = "hook"
  /\ lastShorts.from = YtHome
  /\ isShortsPage(lastShorts.url)
  /\ lastShorts.outcome = "shortsAlert"

C31_Witness_ShortsScriptRan ==
  /\ lastShorts.stage = "script"
  /\ isShortsPage(lastShorts.url)
  /\ isChannelPage(lastShorts.from)

(***************************************************************************)
(* SpecReddit: the NSFW Reddit rule under the configured lists.  The two   *)
(* lists are read from process.env when reddit_filter.ts is evaluated;     *)
(* processUrl is then called on Reddit and other URLs.                     *)
(***************************************************************************)

\* safeParseArray(jsonString): [] for undefined and for text JSON.parse
\* rejects, the parsed array otherwise.
safeParseArray(jsonString) ==
  IF jsonString.kind = "unset" THEN {}
  ELSE IF jsonString.kind = "invalid" THEN {}
  ELSE jsonString.items

KeywordChoices == { <<"nsfw">>, <<"NSFW">> }
PatternChoices == { <<"/", "r", "/", "gonewild">> }

RedditEnvs ==
  [wildcard : {EnvUnset, EnvInvalid} \cup {EnvArray(k) : k \in SUBSET KeywordChoices},
   patterns : {EnvUnset, EnvInvalid} \cup {EnvArray(q) : q \in SUBSET PatternChoices}]

RedditHosts == { <<"www", ".", "reddit", ".", "com">>, <<"example", ".", "com">> }
RedditPaths ==
  { <<>>,
    <<"/", "r", "/", "nsfw", "gaming">>,
    <<"/", "r", "/", "NSFW", "gaming">>,
    <<"/", "r", "/", "wholesomememes", "/", "comments", "/", "1">>,
    <<"/", "r", "/", "gonewild">>,
    <<"/", "user", "/", "x">> }
RedditQueries == { <<>>, <<"?", "ref", "=", "/", "r", "/", "nsfw">> }
RedditCorpus ==
  { scheme \o host \o path \o query :
      scheme \in { <<>>, <<"https://">> }, host \in RedditHosts,
      path \in RedditPaths, query \in RedditQueries }

InitReddit ==
  /\ redditEnv \in RedditEnvs
  /\ redditKeywords = safeParseArray(redditEnv.wildcard)
  /\ redditPatterns = safeParseArray(redditEnv.patterns)
  /\ lastClassify = NoClassify
  /\ UrlAtRest /\ PermAtRest /\ LoadAtRest /\ NavAtRest /\ BlockAtRest /\ PageAtRest
  /\ ParseAtRest /\ ConfigAtRest /\ AddAtRest /\ ShortsAtRest /\ AfterRedditAtRest

\* processUrl(inputUrl), the blocked-domain index being empty.
ProcessRedditUrl ==
  \E input \in RedditCorpus :
    LET result == processUrlWith(input, blockedIndex, imagesBlocking,
                                 redditKeywords, redditPatterns)
    IN /\ lastClassify' = [url |-> input, blocked |-> result.blocked,
                           reason |-> result.reason]
       /\ UNCHANGED <<redditEnv, redditKeywords, redditPatterns>>
       /\ UNCHANGED <<urlVars, permVars, loadVars, navVars, blockVars, pageVars, parseVars,
                      configVars, addVars, shortsVars, afterRedditVars>>

NextReddit == ProcessRedditUrl

SpecReddit == InitReddit /\ [][NextReddit]_vars

\* The classified URL is a Reddit URL: its hostname holds reddit.com.
ClassifiedRedditUrl ==
  /\ lastClassify # NoClassify
  /\ Includes(ToLower(ParseLoose(lastClassify.url).host), <<"reddit", ".", "com">>)

\* The subreddit name of the classified URL: the path segment after /r/.
ClassifiedSubredditName ==
  LET path == ParseLoose(lastClassify.url).path
  IN IF StartsWith(path, <<"/", "r", "/">>)
     THEN LET rest == SubSeq(path, 4, Len(path))
          IN SubSeq(rest, 1, IndexOfFirst(rest, {"/"}) - 1)
     ELSE <<>>

\* The subreddit name holds a configured keyword as a substring, letter
\* case ignored.
KeywordInSubredditName ==
  \E keyword \in redditKeywords :
    Includes(ToLower(ClassifiedSubredditName), ToLower(keyword))

ConfiguredPatternInUrl ==
  \E pattern \in redditPatterns : Includes(ToLower(lastClassify.url), ToLower(pattern))

\* C32: a Reddit URL whose /r/<name> subreddit name contains a keyword of
\* the configured wildcard list as a substring is blocked by processUrl, and
\* a Reddit URL whose subreddit name contains no keyword and which matches
\* no configured pattern is not blocked by the NSFW rule.
C32_KeywordInSubredditNameBlocks ==
  ClassifiedRedditUrl =>
    /\ KeywordInSubredditName => lastClassify.blocked
    /\ (~KeywordInSubredditName /\ ~ConfiguredPatternInUrl)
         => lastClassify.reason # ReasonRedditNsfw

\* The first half alone.
KeywordInNameIsBlocked ==
  (ClassifiedRedditUrl /\ KeywordInSubredditName) => lastClassify.blocked

\* The statement for lists whose keywords are written in lower case and
\* URLs that hold /r/ in the path only.
C32_HoldsForLowercaseKeywords ==
  ( /\ ClassifiedRedditUrl
    /\ \A keyword \in redditKeywords : ToLower(keyword) = keyword
    /\ ~Includes(ParseLoose(lastClassify.url).search, <<"/", "r", "/">>) )
  => C32_KeywordInSubredditNameBlocks

C32_Witness_KeywordBlocked ==
  /\ ClassifiedRedditUrl
  /\ redditKeywords = { <<"nsfw">> }
  /\ ClassifiedSubredditName = <<"nsfw", "gaming">>
  /\ lastClassify.blocked
  /\ lastClassify.reason = ReasonRedditNsfw

C32_Witness_NoKeywordAllowed ==
  /\ ClassifiedRedditUrl
  /\ redditKeywords = { <<"nsfw">> }
  /\ ClassifiedSubredditName = <<"wholesomememes">>
  /\ ~lastClassify.blocked

(***************************************************************************)
(* SpecTabs: the tab list of the browser context (BrowserProvider) and the *)
(* handlers of the tab switcher.  A tab is its id; generateId() returns    *)
(* ids that were never used.                                               *)
(***************************************************************************)

MAX_TABS == 10

\* The number of ids generateId() hands out in one history.
MaxNewTabs == 4

\* The ids of the stored tabs are below FirstNewTabId, those generateId()
\* returns start there.
FirstNewTabId == MAX_TABS + 1
MaxTabIds == FirstNewTabId + MaxNewTabs - 1

TabIds(list) == {list[i] : i \in 1..Len(list)}

\* A stored list of n tabs.
StoredTabs(n) == [i \in 1..n |-> FirstNewTabId - n + i - 1]

\* tabs.filter(t => t.id !== id)
RECURSIVE WithoutTab(_, _)
WithoutTab(list, id) ==
  IF list = <<>> THEN <<>>
  ELSE IF Head(list) = id THEN WithoutTab(Tail(list), id)
  ELSE <<Head(list)>> \o WithoutTab(Tail(list), id)

\* saveTabs(newTabs, newActiveId); a write that fails is only logged, and the
\* writes are taken to be applied in the order they were issued.
saveTabs(newTabs, newActiveId) == TabsStored(newTabs, newActiveId)

\* What is in AsyncStorage when the app starts: nothing, text that does not
\* parse, an empty list, two tabs with the second active, with no active id
\* or with the id of a tab that is not in the list.
StoredTabChoices ==
  { TabsAbsent, TabsCorrupt, TabsStored(<<>>, 0),
    TabsStored(StoredTabs(2), FirstNewTabId - 1), TabsStored(StoredTabs(2), 0),
    TabsStored(StoredTabs(2), 1) }

\* The provider as constructed, over the given contents of AsyncStorage.
InitTabsOver(stored) ==
  /\ tabs = <<>>
  /\ activeTabId = 0
  /\ tabStorage \in stored
  /\ tabsLoaded = FALSE
  /\ nextTabId = FirstNewTabId
  /\ tabCooldown = FALSE
  /\ ViewsAtRest
  /\ UrlAtRest /\ PermAtRest /\ LoadAtRest /\ NavAtRest /\ BlockAtRest /\ PageAtRest
  /\ ParseAtRest /\ ConfigAtRest /\ AddAtRest /\ ShortsAtRest /\ RedditAtRest

InitTabs == InitTabsOver(StoredTabChoices)

OtherThanTabs ==
  <<urlVars, permVars, loadVars, navVars, blockVars, pageVars, parseVars, configVars,
    addVars, shortsVars, redditVars, viewVars>>

\* loadData(), run once by the provider's first effect; readOk is whether
\* the AsyncStorage reads resolved.
loadData ==
  /\ ~tabsLoaded
  /\ \E readOk \in BOOLEAN :
       LET loadedTabs == IF readOk /\ tabStorage.kind = "stored" THEN tabStorage.tabs
                         ELSE <<>>
           loadedActiveId ==
             IF tabStorage.active # 0 /\ tabStorage.active \in TabIds(loadedTabs)
             THEN tabStorage.active
             ELSE IF Len(loadedTabs) > 0 THEN loadedTabs[1] ELSE 0
       IN IF Len(loadedTabs) = 0
          THEN /\ nextTabId <= MaxTabIds
               /\ tabs' = <<nextTabId>>
               /\ activeTabId' = nextTabId
               /\ nextTabId' = nextTabId + 1
               /\ tabStorage' = IF readOk THEN saveTabs(<<nextTabId>>, nextTabId)
                                 ELSE tabStorage
          ELSE /\ tabs' = loadedTabs
               /\ activeTabId' = loadedActiveId
               /\ UNCHANGED <<nextTabId, tabStorage>>
  /\ tabsLoaded' = TRUE
  /\ UNCHANGED tabCooldown
  /\ UNCHANGED OtherThanTabs

\* createTab(url): the state it leaves and the id it returns.
createTab ==
  IF Len(tabs) >= MAX_TABS
  THEN [tabs |-> tabs, storage |-> tabStorage, cooldown |-> tabCooldown,
        nextId |-> nextTabId, returned |-> tabs[Len(tabs)]]
  ELSE IF tabCooldown
  THEN [tabs |-> tabs, storage |-> tabStorage, cooldown |-> tabCooldown,
        nextId |-> nextTabId,
        returned |-> IF activeTabId # 0 THEN activeTabId
                     ELSE IF Len(tabs) > 0 THEN tabs[Len(tabs)] ELSE 0]
  ELSE [tabs |-> Append(tabs, nextTabId),
        storage |-> saveTabs(Append(tabs, nextTabId), activeTabId),
        cooldown |-> TRUE, nextId |-> nextTabId + 1, returned |-> nextTabId]

\* createTab(url) called by the browser screen for a link opened in a new
\* tab: the new tab is not made active.
CreateTabFromPage ==
  /\ tabsLoaded
  /\ nextTabId <= MaxTabIds
  /\ tabs' = createTab.tabs
  /\ tabStorage' = createTab.storage
  /\ tabCooldown' = createTab.cooldown
  /\ nextTabId' = createTab.nextId
  /\ UNCHANGED <<activeTabId, tabsLoaded>>
  /\ UNCHANGED OtherThanTabs

\* handleNewTab of the tab switcher: createTab() and setActiveTab(newTabId),
\* both of the same render, so setActiveTab saves the list it closed over.
handleNewTab ==
  /\ tabsLoaded
  /\ nextTabId <= MaxTabIds
  /\ IF Len(tabs) >= 10
     THEN UNCHANGED <<tabs, activeTabId, tabStorage, tabCooldown, nextTabId>>
     ELSE /\ tabs' = createTab.tabs
          /\ tabCooldown' = createTab.cooldown
          /\ nextTabId' = createTab.nextId
          /\ activeTabId' = createTab.returned
          /\ tabStorage' = saveTabs(tabs, createTab.returned)
  /\ UNCHANGED tabsLoaded
  /\ UNCHANGED OtherThanTabs

\* closeTab(id) that leaves the active id alone.
closeTabKeepsActiveId(id) ==
  LET newTabs == WithoutTab(tabs, id)
  IN /\ IF Len(newTabs) = 0
        THEN /\ nextTabId <= MaxTabIds
             /\ tabs' = <<nextTabId>>
             /\ activeTabId' = nextTabId
             /\ nextTabId' = nextTabId + 1
             /\ tabStorage' = saveTabs(<<nextTabId>>, nextTabId)
        ELSE /\ tabs' = newTabs
             /\ tabStorage' = saveTabs(newTabs, activeTabId)
             /\ UNCHANGED <<nextTabId, activeTabId>>
     /\ UNCHANGED <<tabsLoaded, tabCooldown>>

\* closeTab(id)
closeTab(id) ==
  LET newTabs == WithoutTab(tabs, id)
  IN /\ IF Len(newTabs) = 0
        THEN /\ nextTabId <= MaxTabIds
             /\ tabs' = <<nextTabId>>
             /\ activeTabId' = nextTabId
             /\ nextTabId' = nextTabId + 1
             /\ tabStorage' = saveTabs(<<nextTabId>>, nextTabId)
        ELSE /\ tabs' = newTabs
             /\ activeTabId' = IF activeTabId = id THEN newTabs[Len(newTabs)]
                               ELSE activeTabId
             /\ tabStorage' = saveTabs(newTabs, activeTabId')
             /\ UNCHANGED nextTabId
     /\ UNCHANGED <<tabsLoaded, tabCooldown>>

\* handleCloseTab of a tab card.
handleCloseTab ==
  /\ tabsLoaded
  /\ \E id \in TabIds(tabs) : closeTab(id)
  /\ UNCHANGED OtherThanTabs

\* setActiveTab(id)
setActiveTab(id) ==
  /\ activeTabId' = id
  /\ tabStorage' = saveTabs(tabs, id)
  /\ UNCHANGED <<tabs, tabsLoaded, nextTabId, tabCooldown>>

\* handleSelectTab of a tab card.
handleSelectTab ==
  /\ tabsLoaded
  /\ \E id \in TabIds(tabs) : setActiveTab(id)
  /\ UNCHANGED OtherThanTabs

\* resetActiveTab(): the active tab is replaced, in place, by a new tab.
resetActiveTab ==
  /\ tabsLoaded
  /\ nextTabId <= MaxTabIds
  /\ IF activeTabId \notin TabIds(tabs)
     THEN UNCHANGED <<tabs, activeTabId, tabStorage, nextTabId>>
     ELSE LET newTabs == [i \in 1..Len(tabs) |->
                           IF tabs[i] = activeTabId THEN nextTabId ELSE tabs[i]]
          IN /\ tabs' = newTabs
             /\ activeTabId' = nextTabId
             /\ nextTabId' = nextTabId + 1
             /\ tabStorage' = saveTabs(newTabs, nextTabId)
  /\ UNCHANGED <<tabsLoaded, tabCooldown>>
  /\ UNCHANGED OtherThanTabs

\* The links another app can hand to the browser.
IncomingUrls ==
  { <<"https://", "example", ".", "com", "/">>,
    <<"https://", "example", ".", "com", "/", "app", ".", "apk">>,
    <<"fb://", "profile", "/", "1">> }

\* processIncomingUrl(url, tabs, activeTabId) of the Linking 'url' listener.
processIncomingUrl ==
  /\ tabsLoaded
  /\ nextTabId <= MaxTabIds
  /\ \E url \in IncomingUrls :
       IF ~StartsWithHttp(url) \/ processUrl(url, {}, FALSE).blocked
       THEN UNCHANGED <<tabs, activeTabId, tabStorage, nextTabId>>
       ELSE /\ tabs' = Append(tabs, nextTabId)
            /\ activeTabId' = nextTabId
            /\ nextTabId' = nextTabId + 1
            /\ tabStorage' = saveTabs(Append(tabs, nextTabId), nextTabId)
  /\ UNCHANGED <<tabsLoaded, tabCooldown>>
  /\ UNCHANGED OtherThanTabs

\* A second passes after the last tab creation.
TabCooldownEnds ==
  /\ tabCooldown
  /\ tabCooldown' = FALSE
  /\ UNCHANGED <<tabs, activeTabId, tabStorage, tabsLoaded, nextTabId>>
  /\ UNCHANGED OtherThanTabs

NextTabs ==
  \/ loadData
  \/ CreateTabFromPage
  \/ handleNewTab
  \/ handleCloseTab
  \/ handleSelectTab
  \/ resetActiveTab
  \/ processIncomingUrl
  \/ TabCooldownEnds

SpecTabs == InitTabs /\ [][NextTabs]_vars

C39_Witness_LoadedWithStaleActiveId ==
  /\ tabsLoaded
  /\ tabStorage = TabsStored(StoredTabs(2), 1)
  /\ tabs = StoredTabs(2)
  /\ activeTabId = tabs[1]

NearLimitChoices ==
  { TabsStored(StoredTabs(MAX_TABS - 1), FirstNewTabId - 1),
    TabsStored(StoredTabs(MAX_TABS), FirstNewTabId - 1),
    TabsStored(StoredTabs(MAX_TABS), FirstNewTabId - MAX_TABS) }

InitTabLimit == InitTabsOver(NearLimitChoices)

NextTabLimit ==
  \/ loadData
  \/ CreateTabFromPage
  \/ handleNewTab
  \/ handleSelectTab
  \/ resetActiveTab
  \/ processIncomingUrl
  \/ TabCooldownEnds

SpecTabLimit == InitTabLimit /\ [][NextTabLimit]_vars

\* C40: the number of open tabs never exceeds MAX_TABS, whatever sequence of
\* tab-creating operations (createTab, processIncomingUrl, resetActiveTab)
\* has run.
C40_TabCountWithinLimit == Len(tabs) <= MAX_TABS

\* createTab alone keeps the limit: a list longer than MAX_TABS holds a tab
\* that processIncomingUrl appended and made active.
CreateTabKeepsLimit ==
  Len(tabs) > MAX_TABS =>
    \E i \in (MAX_TABS + 1)..Len(tabs) : tabs[i] >= FirstNewTabId

\* createTab was called with the list full and added nothing.
C40_Witness_FullListKept ==
  /\ tabsLoaded
  /\ Len(tabs) = MAX_TABS
  /\ tabs[MAX_TABS] >= FirstNewTabId
  /\ ~tabCooldown
  /\ nextTabId = tabs[MAX_TABS] + 1

\* A link from another app was opened with the list full.
C40_Witness_IncomingLinkOverLimit ==
  /\ Len(tabs) = MAX_TABS + 1
  /\ activeTabId = tabs[MAX_TABS + 1]

(***************************************************************************)
(* SpecViews: the content views of two tabs.  Every tab has its own view;  *)
(* the callbacks of a view reach the screen's handlers only while its tab  *)
(* is the active one, and webViewRef, isLoadingRef and                     *)
(* ytPendingStopThenReloadRef are single refs of the screen.               *)
(***************************************************************************)

ViewTabs == StoredTabs(2)

InitViews ==
  /\ tabs = ViewTabs
  /\ activeTabId \in TabIds(ViewTabs)
  /\ tabStorage = TabsStored(ViewTabs, activeTabId)
  /\ tabsLoaded = TRUE
  /\ nextTabId = FirstNewTabId
  /\ tabCooldown = FALSE
  /\ viewLoading = [t \in TabIds(ViewTabs) |-> FALSE]
  /\ ytRequester = 0
  /\ lastViewReload = NoViewReload
  /\ UrlAtRest /\ PermAtRest /\ LoadAtRest /\ NavAtRest /\ BlockAtRest /\ PageAtRest
  /\ ParseAtRest /\ ConfigAtRest /\ AddAtRest /\ ShortsAtRest /\ RedditAtRest

OtherThanViews ==
  <<urlVars, permVars, navVars, blockVars, parseVars, configVars, addVars, shortsVars,
    redditVars>>

\* webViewRef.current.reload(): the view of the active tab reloads.
ViewReload(cause) == [tab |-> activeTabId, requester |-> ytRequester, cause |-> cause]

\* onLoadStart of the view of tab t: handleLoadStart for the active tab.
ViewLoadStart(t) ==
  /\ viewLoading' = [viewLoading EXCEPT ![t] = TRUE]
  /\ IF t = activeTabId
     THEN /\ isLoadingRef' = TRUE
          /\ lastInjection' = Injection("loadStart", LoadStartScripts)
     ELSE UNCHANGED <<isLoadingRef, lastInjection>>
  /\ UNCHANGED <<ytPendingStopThenReloadRef, lastReload, ytRequester, lastViewReload>>
  /\ UNCHANGED <<tabVars, OtherThanViews>>

\* onLoadEnd of the view of tab t (its load finished, failed or was
\* stopped): handleLoadEnd for the active tab.
ViewLoadEnd(t) ==
  /\ viewLoading[t]
  /\ viewLoading' = [viewLoading EXCEPT ![t] = FALSE]
  /\ IF t # activeTabId
     THEN UNCHANGED <<isLoadingRef, ytPendingStopThenReloadRef, lastReload, lastInjection,
                      ytRequester, lastViewReload>>
     ELSE /\ isLoadingRef' = FALSE
          /\ IF ytPendingStopThenReloadRef
             THEN /\ ytPendingStopThenReloadRef' = FALSE
                  /\ lastReload' = [cause |-> "ytLoadEnd", whileLoading |-> FALSE]
                  /\ lastViewReload' = ViewReload("ytLoadEnd")
                  /\ ytRequester' = 0
                  /\ UNCHANGED lastInjection
             ELSE /\ lastInjection' = Injection("loadEnd", LoadEndScripts)
                  /\ UNCHANGED <<ytPendingStopThenReloadRef, lastReload, ytRequester,
                                 lastViewReload>>
  /\ UNCHANGED <<tabVars, OtherThanViews>>

\* onMessage of the view of tab t with a ytStopThenReload message: the
\* handler runs for the active tab only.
ViewMessageYtStopThenReload(t) ==
  /\ IF t # activeTabId
     THEN UNCHANGED <<ytPendingStopThenReloadRef, lastReload, ytRequester, lastViewReload>>
     ELSE IF ~isLoadingRef
          THEN /\ ytPendingStopThenReloadRef' = FALSE
               /\ lastReload' = Reload("ytStopThenReload")
               /\ lastViewReload' = [tab |-> t, requester |-> t, cause |-> "ytStopThenReload"]
               /\ UNCHANGED ytRequester
          ELSE /\ ytPendingStopThenReloadRef' = TRUE
               /\ ytRequester' = t
               /\ UNCHANGED <<lastReload, lastViewReload>>
  /\ UNCHANGED <<isLoadingRef, viewLoading, lastInjection>>
  /\ UNCHANGED <<tabVars, OtherThanViews>>

\* handleSelectTab of the tab switcher.
ViewSelectTab ==
  /\ \E id \in TabIds(tabs) : setActiveTab(id)
  /\ UNCHANGED <<loadVars, pageVars, viewVars, OtherThanViews>>

ViewsLoadStart == \E t \in TabIds(tabs) : ViewLoadStart(t)
ViewsLoadEnd == \E t \in TabIds(tabs) : ViewLoadEnd(t)
ViewsMessage == \E t \in TabIds(tabs) : ViewMessageYtStopThenReload(t)

NextViews == ViewsLoadStart \/ ViewsLoadEnd \/ ViewsMessage \/ ViewSelectTab

SpecViews == InitViews /\ [][NextViews]_vars

\* Every view ends every load it started with a load-end callback.
SpecViewsFair ==
  InitViews /\ [][NextViews]_vars /\ \A t \in TabIds(ViewTabs) : WF_vars(ViewLoadEnd(t))

\* C36: a stop-then-reload asked for by the page of one tab is applied to
\* the content view of that tab only: whatever tab is active when the
\* load-end callback arrives, no other tab is reloaded because of it.
C36_ReloadAppliedToRequestingTab ==
  lastViewReload.cause \in {"ytLoadEnd", "ytStopThenReload"}
    => lastViewReload.tab = lastViewReload.requester

\* A request does not stay pending for ever.
PendingRequestEventuallyServed ==
  ytPendingStopThenReloadRef ~> ~ytPendingStopThenReloadRef

\* The requesting tab stayed active and was reloaded at its load-end.
C36_Witness_RequesterReloaded ==
  /\ lastViewReload.cause = "ytLoadEnd"
  /\ lastViewReload.tab = lastViewReload.requester
  /\ ~ytPendingStopThenReloadRef

\* Another tab was made active while the request was pending.
C36_Witness_TabChangedWhilePending ==
  /\ ytPendingStopThenReloadRef
  /\ ytRequester # 0
  /\ ytRequester # activeTabId

====
